---- MODULE Spec2Model ----
(***************************************************************************)
(* Subscription lifecycle of the SolVPN bot: the per-user conversation     *)
(* (main.py), the subscription store (database.py, SQLite variant), the    *)
(* Outline key provisioning (outline_utils.py), the expiry scheduler       *)
(* (scheduler_tasks.py) and the per-user rate limiter (main.py).           *)
(*                                                                         *)
(* Time.  `now' is datetime.utcnow() in days; it only takes the values of  *)
(* TimePoints (a sampling of the time line that keeps the real plan        *)
(* durations).  `wall' is time.time() in seconds, used by the rate limiter *)
(* only.  The 5 minute delay of the deferred deletion job is below the     *)
(* resolution of `now': a scheduled job fires at any later step.           *)
(*                                                                         *)
(* Python values.  None is NoId (0) for ids and payment references, NoDate *)
(* (-1) for timestamps and the string "None" for text columns; a dict is a *)
(* function whose DOMAIN is the set of its keys.                           *)
(***************************************************************************)
EXTENDS Integers, Sequences, FiniteSets, TLC

\* ---------------------------------------------------------------- bounds
MaxTime == 31
MaxWall == 21
MaxSubs == 1
MaxRefs == 2
MaxJobs == 2
MaxCalls == 4
MaxTurns == 2
MaxEnd == 90
MaxFlowCalls == 2

\* ------------------------------------------------------- program constants
\* COMMAND_RATE_LIMIT["subscribe"], COMMAND_RATE_LIMIT["default"]
SUBSCRIBE_RATE_LIMIT == 10
DEFAULT_RATE_LIMIT == 3
CALLBACK_RATE_LIMIT == 2
MESSAGE_RATE_LIMIT == 1

NoId == 0
NoDate == 0 - 1
None == "None"

Actors == {1, 2}

\* ADMIN_USER_ID of the .env file: a user id of its own
ADMIN_USER_ID == 3

Users == Actors \cup {ADMIN_USER_ID}

\* the instants at which the model looks at the store clock: a purchase, two days
\* before the end of a 30 day plan, its end, and the day after
TimePoints == {0, 28, 30, 31} \cap (0..MaxTime)

\* time.time() is past every interval when the process starts
WallStart == SUBSCRIBE_RATE_LIMIT + 1

DURATION_PLANS ==
    [p \in {"1_month", "3_months"} |->
        [duration_days |-> IF p = "1_month" THEN 30 ELSE 90]]

\* the plans, payment buttons and packages the model's user picks from
Plans == {"1_month"}
PaymentButtons == {"crypto"}
Packages == {"standard"}

COUNTRY_PACKAGES ==
    [k \in {"standard", "extended"} |-> [countries |-> <<"germany", "amsterdam">>]]

OUTLINE_SERVERS == {"germany", "amsterdam"}

VARIABLES
    now,                    \* datetime.utcnow(), in days
    wall,                   \* time.time(), in seconds
    subscriptions,          \* table subscriptions: sequence of rows, id = index
    subscription_countries, \* table subscription_countries: sequence of rows
    outline_keys,           \* per Outline server: the ids of the keys that exist
    next_key,               \* per Outline server: the id the next created key gets
    user_data,              \* context.user_data of every user (a dict), the
                            \* administrator included
    conv,                   \* ConversationHandler state of every user
    next_ref,               \* next invoice / payment id the provider hands out
    verified,               \* history: <<user, reference>> reported paid and verified
    activated,              \* history: the ids of the subscriptions that were active
    entered,                \* history: the entry point the open flow of each user came
                            \* in by, None when the user has no flow open
    scan,                   \* rows of the scan pass in progress not yet processed
    jobs,                   \* job queue: pending delete_expired_keys jobs
    reminded_subs,          \* context.job.context['reminded_subs'] of the scan job
    reminders,              \* history: per subscription, the reminders sent
    window_turns,           \* history: per subscription, the scan turns in a row
                            \* that found it expiring soon
    users,                  \* table users: the ids of the users it holds
    admin_conv,             \* state of admin_delete_conversation for every user
    calls,                  \* history: the calls of the rate limiter and its answers
    minted_for,             \* history: per payment id handed out, the plan whose
                            \* price the provider was asked for
    existing_sub,           \* the row confirm_payment has read for a renewal it has
                            \* not written yet (with the user), as a sequence of
                            \* one element, empty otherwise
    shown                   \* the text the last step put on the screen in answer to
                            \* pay_<button>, confirm_payment, countries_<package>
                            \* or the administrator's confirmation, None otherwise

stateVars == <<now, wall, subscriptions, subscription_countries, outline_keys, next_key,
               user_data, conv, next_ref, verified, activated, entered, scan, jobs,
               reminded_subs,
               reminders,
               window_turns, users, admin_conv, calls, existing_sub,
               minted_for>>

vars == <<stateVars, shown>>

storeVars == <<subscriptions, subscription_countries>>
serverVars == <<outline_keys, next_key>>
remindVars == <<reminded_subs, reminders, window_turns>>
schedVars == <<scan, jobs, remindVars>>
clockVars == <<now, wall>>
adminVars == <<users, admin_conv>>

\* ------------------------------------------------------------ dict helpers
EmptyDict == <<>>

Get(d, k, default) == IF k \in DOMAIN d THEN d[k] ELSE default

Put(d, k, v) == [x \in DOMAIN d \cup {k} |-> IF x = k THEN v ELSE d[x]]

SubIds == DOMAIN subscriptions

\* ------------------------------------------------------------ conversation
UserConversationState ==
    {"CHOOSE_DURATION", "CHOOSE_PAYMENT", "AWAIT_PAYMENT_CONFIRMATION", "CHOOSE_COUNTRIES"}

AdminConversationState == {"ADMIN_LIST_SUBS", "ADMIN_CONFIRM_DELETE_SUB"}

END == "END"

\* --------------------------------------------------------------- rate limiter
RateLimitOf(limit_type) ==
    CASE limit_type = "command_subscribe" -> SUBSCRIBE_RATE_LIMIT
      [] limit_type = "callback" -> CALLBACK_RATE_LIMIT
      [] limit_type = "message" -> MESSAGE_RATE_LIMIT
      [] OTHER -> DEFAULT_RATE_LIMIT

LastActionTimes(d) == Get(d, "last_action_times", EmptyDict)

\* variant: a call exactly one interval after the last one is still rejected
is_rate_limited_inclusive(d, limit_type, t) ==
    t - Get(LastActionTimes(d), limit_type, 0) <= RateLimitOf(limit_type)

\* is_rate_limited: the answer
is_rate_limited(d, limit_type, t) ==
    t - Get(LastActionTimes(d), limit_type, 0) < RateLimitOf(limit_type)

\* variant: a rejected call is recorded too
after_rate_limit_always(d, limit_type, t) ==
    Put(d, "last_action_times", Put(LastActionTimes(d), limit_type, t))

\* is_rate_limited: user_data after the call
after_rate_limit(d, limit_type, t) ==
    LET d1 == Put(d, "last_action_times", LastActionTimes(d))
    IN  IF is_rate_limited(d, limit_type, t)
        THEN d1
        ELSE Put(d1, "last_action_times", Put(LastActionTimes(d), limit_type, t))

Init ==
    /\ now = 0
    /\ wall = WallStart
    /\ subscriptions = <<>>
    /\ subscription_countries = <<>>
    /\ outline_keys = [c \in OUTLINE_SERVERS |-> {}]
    /\ next_key = [c \in OUTLINE_SERVERS |-> 1]
    /\ user_data = [a \in Users |-> EmptyDict]
    /\ conv = [a \in Users |-> END]
    /\ next_ref = 1
    /\ verified = {}
    /\ activated = {}
    /\ entered = [a \in Users |-> None]
    /\ scan = <<>>
    /\ jobs = <<>>
    /\ reminded_subs = {}
    /\ reminders = [n \in 1..MaxSubs |-> 0]
    /\ window_turns = [n \in 1..MaxSubs |-> 0]
    /\ users = {}
    /\ admin_conv = [u \in Users |-> END]
    /\ calls = <<>>
    /\ existing_sub = <<>>
    /\ minted_for = <<>>
    /\ shown = None

\* ------------------------------------------------------------------ store
\* INSERT INTO subscriptions (user_id, duration_plan_id, status)
create_subscription_record(subs, user_id, duration_plan_id) ==
    Append(subs, [id |-> Len(subs) + 1, user_id |-> user_id,
                  duration_plan_id |-> duration_plan_id, country_package_id |-> None,
                  start_date |-> NoDate, end_date |-> NoDate,
                  status |-> "pending_payment", payment_id |-> NoId])

update_subscription_country_package(subs, subscription_id, country_package_id) ==
    [i \in DOMAIN subs |->
        IF subs[i].id = subscription_id
        THEN [subs[i] EXCEPT !.country_package_id = country_package_id]
        ELSE subs[i]]

\* variant: the row is inserted twice
add_subscription_country_twice(rows, subscription_id, country_code, outline_key_id) ==
    rows \o << [subscription_id |-> subscription_id, country_code |-> country_code,
                outline_key_id |-> outline_key_id],
               [subscription_id |-> subscription_id, country_code |-> country_code,
                outline_key_id |-> outline_key_id] >>

add_subscription_country(rows, subscription_id, country_code, outline_key_id) ==
    Append(rows, [subscription_id |-> subscription_id, country_code |-> country_code,
                  outline_key_id |-> outline_key_id])

\* variant: the status is set without the dates
activate_subscription_undated(subs, subscription_db_id, duration_days, payment_id, t) ==
    [i \in DOMAIN subs |->
        IF subs[i].id = subscription_db_id
        THEN [subs[i] EXCEPT !.status = "active", !.payment_id = payment_id]
        ELSE subs[i]]

activate_subscription(subs, subscription_db_id, duration_days, payment_id, t) ==
    [i \in DOMAIN subs |->
        IF subs[i].id = subscription_db_id
        THEN [subs[i] EXCEPT !.start_date = t, !.end_date = t + duration_days,
                             !.status = "active", !.payment_id = payment_id]
        ELSE subs[i]]

\* variant: the row goes back to the status of a new row
mark_subscription_unpaid(subs, subscription_id) ==
    [i \in DOMAIN subs |->
        IF subs[i].id = subscription_id
        THEN [subs[i] EXCEPT !.status = "pending_payment"]
        ELSE subs[i]]

mark_subscription_expired(subs, subscription_id) ==
    [i \in DOMAIN subs |->
        IF subs[i].id = subscription_id
        THEN [subs[i] EXCEPT !.status = "expired"]
        ELSE subs[i]]

\* variant: the renewal also starts the subscription again and forgets its package
renew_subscription_restarted(subs, new_end_date, payment_id, renewing_sub_id, user_id) ==
    [i \in DOMAIN subs |->
        IF subs[i].id = renewing_sub_id /\ subs[i].user_id = user_id
        THEN [subs[i] EXCEPT !.end_date = new_end_date, !.status = "active",
                             !.payment_id = payment_id, !.start_date = NoDate,
                             !.country_package_id = None]
        ELSE subs[i]]

\* the UPDATE of confirm_payment: SET end_date, status, payment_id WHERE id AND user_id
renew_subscription(subs, new_end_date, payment_id, renewing_sub_id, user_id) ==
    [i \in DOMAIN subs |->
        IF subs[i].id = renewing_sub_id /\ subs[i].user_id = user_id
        THEN [subs[i] EXCEPT !.end_date = new_end_date, !.status = "active",
                             !.payment_id = payment_id]
        ELSE subs[i]]

\* the ids of the rows with status active
NowActive(subs) ==
    {n \in DOMAIN subs : subs[n].status = "active"}

\* the columns of SELECT id, user_id, ... FROM subscriptions, in the order of the row tuple
SubscriptionColumns ==
    <<"id", "user_id", "duration_plan_id", "country_package_id",
      "start_date", "end_date", "status", "payment_id">>

\* the columns whose values are text
TextColumns == {"duration_plan_id", "country_package_id", "status"}

\* subscription[i] == text, for a row tuple indexed from 0: a timestamp or a
\* number never equals a text
ColumnEqualsText(row, i, text) ==
    LET col == SubscriptionColumns[i + 1]
    IN  IF col \in TextColumns THEN row[col] = text ELSE FALSE

\* the rows of subscription_countries of one subscription, in table order
RowsOf(rows, subscription_id) ==
    SelectSeq(rows, LAMBDA r : r.subscription_id = subscription_id)

\* GROUP_CONCAT(sc.outline_key_id), GROUP_CONCAT(sc.country_code)
KeyIdsOf(rows, subscription_id) ==
    LET rs == RowsOf(rows, subscription_id)
    IN  [i \in DOMAIN rs |-> rs[i].outline_key_id]

CountriesOf(rows, subscription_id) ==
    LET rs == RowsOf(rows, subscription_id)
    IN  [i \in DOMAIN rs |-> rs[i].country_code]

\* ----------------------------------------------------------- user commands
\* rate_limit_command(name) around a handler that changes nothing else of the state:
\* the wrapper calls is_rate_limited and returns or goes on to the handler
rate_limited_handler(a, command_name) ==
    /\ user_data' = [user_data EXCEPT ![a] =
            after_rate_limit(@, "command_" \o command_name, wall)]
    /\ UNCHANGED <<clockVars, adminVars, storeVars, serverVars, schedVars, conv, next_ref,
                   verified, activated, entered, calls>>
    /\ UNCHANGED <<existing_sub, minted_for>>
    /\ shown' = None

\* /start: the handler stores the user in the table users
start_command(a) ==
    /\ user_data' = [user_data EXCEPT ![a] = after_rate_limit(@, "command_start", wall)]
    /\ users' = IF is_rate_limited(user_data[a], "command_start", wall)
                THEN users
                ELSE users \cup {a}
    /\ UNCHANGED <<clockVars, admin_conv, storeVars, serverVars, schedVars,
                   conv, next_ref, verified, activated, entered, calls>>
    /\ UNCHANGED <<existing_sub, minted_for>>
    /\ shown' = None

help_command(a) == rate_limited_handler(a, "help")

\* /subscribe: entry point of the conversation (allow_reentry: from every state)
subscribe_command(a) ==
    /\ user_data' = [user_data EXCEPT ![a] = after_rate_limit(@, "command_subscribe", wall)]
    /\ conv' = IF is_rate_limited(user_data[a], "command_subscribe", wall)
               THEN conv
               ELSE [conv EXCEPT ![a] = "CHOOSE_DURATION"]
    /\ entered' = IF is_rate_limited(user_data[a], "command_subscribe", wall)
                  THEN entered
                  ELSE [entered EXCEPT ![a] = "subscribe"]
    /\ UNCHANGED <<clockVars, adminVars, storeVars, serverVars, schedVars, next_ref,
                   verified, activated, calls>>
    /\ UNCHANGED <<existing_sub, minted_for>>
    /\ shown' = None

\* callback menu_subscribe: entry point of the conversation
menu_subscribe_handler(a) ==
    /\ conv' = [conv EXCEPT ![a] = "CHOOSE_DURATION"]
    /\ entered' = [entered EXCEPT ![a] = "subscribe"]
    /\ UNCHANGED <<clockVars, adminVars, storeVars, serverVars, schedVars, user_data,
                   next_ref, verified, activated, calls>>
    /\ UNCHANGED <<existing_sub, minted_for>>
    /\ shown' = None

\* callback renew_<sub_id>: entry point of the conversation
handle_renewal(a, sub_id) ==
    /\ IF sub_id \notin SubIds \/ subscriptions[sub_id].user_id # a
       THEN /\ conv' = [conv EXCEPT ![a] = END]
            /\ entered' = [entered EXCEPT ![a] = None]
            /\ UNCHANGED user_data
       ELSE /\ user_data' = [user_data EXCEPT ![a] = Put(@, "renewing_sub_id", sub_id)]
            /\ conv' = [conv EXCEPT ![a] = "CHOOSE_DURATION"]
            /\ entered' = [entered EXCEPT ![a] = "renewal"]
    /\ UNCHANGED <<clockVars, adminVars, storeVars, serverVars, schedVars, next_ref,
                   verified, activated, calls>>
    /\ UNCHANGED <<existing_sub, minted_for>>
    /\ shown' = None

duration_chosen(a, duration_id) ==
    /\ conv[a] = "CHOOSE_DURATION"
    /\ user_data' = [user_data EXCEPT ![a] = Put(@, "selected_duration", duration_id)]
    /\ conv' = [conv EXCEPT ![a] = "CHOOSE_PAYMENT"]
    /\ UNCHANGED <<clockVars, adminVars, storeVars, serverVars, schedVars, next_ref,
                   verified, activated, entered, calls>>
    /\ UNCHANGED <<existing_sub, minted_for>>
    /\ shown' = None

\* the text payment_method_chosen puts on the screen when it cannot go on; None
\* stands for the provider's payment instructions
payment_method_chosen_reply(a, button, minted) ==
    IF Get(user_data[a], "selected_duration", None) = None
    THEN "duration_not_selected"
    ELSE IF button # "other" /\ ~minted
    THEN "payment_creation_error"
    ELSE None

\* callback pay_<button>: pay_crypto and pay_card ask the provider for a payment
\* (minted: it returned one), every other pay_ callback falls through
payment_method_chosen(a, button, minted) ==
    /\ conv[a] = "CHOOSE_PAYMENT"
    /\ (button # "other" /\ minted) => next_ref <= MaxRefs
    /\ IF Get(user_data[a], "selected_duration", None) = None
       THEN /\ conv' = [conv EXCEPT ![a] = END]
            /\ UNCHANGED <<user_data, next_ref, minted_for>>
       ELSE IF button = "other"
            THEN /\ conv' = [conv EXCEPT ![a] = "AWAIT_PAYMENT_CONFIRMATION"]
                 /\ UNCHANGED <<user_data, next_ref, minted_for>>
            ELSE IF minted
            THEN /\ user_data' = [user_data EXCEPT ![a] =
                        Put(Put(@, "payment_id", next_ref), "payment_type", button)]
                 /\ next_ref' = next_ref + 1
                 /\ minted_for' = Append(minted_for, user_data[a]["selected_duration"])
                 /\ conv' = [conv EXCEPT ![a] = "AWAIT_PAYMENT_CONFIRMATION"]
            ELSE /\ conv' = [conv EXCEPT ![a] = "CHOOSE_DURATION"]
                 /\ UNCHANGED <<user_data, next_ref, minted_for>>
    /\ entered' = [entered EXCEPT ![a] = IF conv'[a] = END THEN None ELSE @]
    /\ UNCHANGED <<clockVars, adminVars, storeVars, serverVars, schedVars, verified,
                   activated, calls>>
    /\ UNCHANGED existing_sub
    /\ shown' = payment_method_chosen_reply(a, button, minted)

back_to_duration_handler(a) ==
    /\ conv[a] = "CHOOSE_PAYMENT"
    /\ conv' = [conv EXCEPT ![a] = "CHOOSE_DURATION"]
    /\ UNCHANGED <<clockVars, adminVars, storeVars, serverVars, schedVars, user_data, next_ref,
                   verified, activated, entered, calls>>
    /\ UNCHANGED <<existing_sub, minted_for>>
    /\ shown' = None

\* variant: the provider's status alone decides
payment_confirmed_unverified(status, is_verified) ==
    status = "paid" \/ status = "succeeded"

\* `if status == "paid" or status == "succeeded"' and then `if is_verified'
payment_confirmed(status, is_verified) ==
    (status = "paid" \/ status = "succeeded") /\ is_verified

\* variant: the renewal counts from the current time
new_end_date_from_now(current_end_date, duration_days) ==
    now + duration_days

\* new_end_date = current_end_date + timedelta(days=plan['duration_days'])
new_end_date(current_end_date, duration_days) ==
    current_end_date + duration_days

\* the text confirm_payment puts in place of the keyboard; None: the handler
\* returns without a message
confirm_payment_reply(a, status, is_verified) ==
    LET payment_id == Get(user_data[a], "payment_id", NoId)
        payment_type == Get(user_data[a], "payment_type", None)
        duration_id == Get(user_data[a], "selected_duration", None)
        renewing_sub_id == Get(user_data[a], "renewing_sub_id", NoId)
    IN  IF payment_id = NoId \/ payment_type = None
        THEN "payment_information_missing"
        ELSE IF status = "paid" \/ status = "succeeded"
        THEN IF ~is_verified
             THEN "verification_failed"
             ELSE IF duration_id = None
             THEN "processing_error"
             ELSE IF renewing_sub_id # NoId
             THEN IF renewing_sub_id \notin SubIds
                  THEN "renewal_not_found"
                  ELSE IF subscriptions[renewing_sub_id].end_date = NoDate
                  THEN "processing_error"
                  ELSE "renewed"
             ELSE "choose_countries"
        ELSE IF status = "not_found"
        THEN "payment_not_found"
        ELSE None

\* the texts that come with the button that checks the payment again
RetryPrompts == {"verification_failed", "payment_not_found", "processing_error"}

\* callback confirm_payment; status and is_verified are the provider's answers
confirm_payment(a, status, is_verified) ==
    LET payment_id == Get(user_data[a], "payment_id", NoId)
        payment_type == Get(user_data[a], "payment_type", None)
        duration_id == Get(user_data[a], "selected_duration", None)
        renewing_sub_id == Get(user_data[a], "renewing_sub_id", NoId)
        stay == UNCHANGED <<subscriptions, user_data, conv>>
    IN
    /\ conv[a] = "AWAIT_PAYMENT_CONFIRMATION"
    /\ verified' = IF /\ payment_id # NoId
                      /\ payment_type # None
                      /\ status \in {"paid", "succeeded"}
                      /\ is_verified
                   THEN verified \cup {<<a, payment_id>>}
                   ELSE verified
    /\ IF payment_id = NoId \/ payment_type = None
       THEN /\ conv' = [conv EXCEPT ![a] = END]
            /\ UNCHANGED <<subscriptions, user_data>>
       ELSE IF payment_confirmed(status, is_verified)
       THEN IF duration_id = None
            THEN stay                                   \* KeyError, caught
            ELSE IF renewing_sub_id # NoId
            THEN IF renewing_sub_id \notin SubIds
                 THEN /\ conv' = [conv EXCEPT ![a] = END]
                      /\ UNCHANGED <<subscriptions, user_data>>
                 ELSE IF subscriptions[renewing_sub_id].end_date = NoDate
                 THEN stay                              \* fromisoformat(None), caught
                 ELSE /\ subscriptions' = renew_subscription(subscriptions,
                               new_end_date(subscriptions[renewing_sub_id].end_date,
                                            DURATION_PLANS[duration_id].duration_days),
                               payment_id, renewing_sub_id, a)
                      /\ conv' = [conv EXCEPT ![a] = END]
                      /\ UNCHANGED user_data
            ELSE /\ Len(SelectSeq(subscriptions, LAMBDA r : r.user_id = a)) < MaxSubs
                 /\ subscriptions' = create_subscription_record(subscriptions, a, duration_id)
                 /\ user_data' = [user_data EXCEPT ![a] =
                         Put(Put(@, "pending_subscription_id", Len(subscriptions) + 1),
                             "payment_id", payment_id)]
                 /\ conv' = [conv EXCEPT ![a] = "CHOOSE_COUNTRIES"]
       ELSE stay                \* retry prompt, or no answer at all: the state stays
    /\ activated' = activated \cup NowActive(subscriptions')
    /\ entered' = [entered EXCEPT ![a] = IF conv'[a] = END THEN None ELSE @]
    /\ UNCHANGED <<clockVars, adminVars, subscription_countries, serverVars, schedVars,
                   next_ref, calls>>
    /\ UNCHANGED <<existing_sub, minted_for>>
    /\ shown' = confirm_payment_reply(a, status, is_verified)

\* variant: the loop stops at the first country that fails
RECURSIVE create_keys_until_failure(_, _, _, _)
create_keys_until_failure(st, subscription_id, countries, created) ==
    IF countries = <<>> \/ ~created[Head(countries)]
    THEN st
    ELSE LET c == Head(countries)
             key_id == st.next_key[c]
         IN  create_keys_until_failure(
                [rows |-> add_subscription_country(st.rows, subscription_id, c, key_id),
                 keys |-> [st.keys EXCEPT ![c] = @ \cup {key_id}],
                 next_key |-> [st.next_key EXCEPT ![c] = @ + 1],
                 created_keys |-> Append(st.created_keys, c)],
                subscription_id, Tail(countries), created)

\* variant: the answer of create_key is not looked at
RECURSIVE create_keys_unchecked(_, _, _, _)
create_keys_unchecked(st, subscription_id, countries, created) ==
    IF countries = <<>>
    THEN st
    ELSE LET c == Head(countries)
             key_id == st.next_key[c]
         IN  create_keys_unchecked(
                [rows |-> add_subscription_country(st.rows, subscription_id, c, key_id),
                 keys |-> [st.keys EXCEPT ![c] = @ \cup {key_id}],
                 next_key |-> [st.next_key EXCEPT ![c] = @ + 1],
                 created_keys |-> Append(st.created_keys, c)],
                subscription_id, Tail(countries), created)

\* the per-country loop of countries_chosen; created[c]: the client of c is there
\* and its create_key returned a key
RECURSIVE create_keys(_, _, _, _)
create_keys(st, subscription_id, countries, created) ==
    IF countries = <<>>
    THEN st
    ELSE LET c == Head(countries)
             key_id == st.next_key[c]
         IN  IF created[c]
             THEN create_keys(
                    [rows |-> add_subscription_country(st.rows, subscription_id, c, key_id),
                     keys |-> [st.keys EXCEPT ![c] = @ \cup {key_id}],
                     next_key |-> [st.next_key EXCEPT ![c] = @ + 1],
                     created_keys |-> Append(st.created_keys, c)],
                    subscription_id, Tail(countries), created)
             ELSE create_keys(st, subscription_id, Tail(countries), created)

\* what one turn of the loop meets in its country: the key is created and renamed,
\* created while rename_outline_key returns False, get_outline_client returns
\* None, create_outline_key returns (None, None), or a call raises before a key
\* exists
Outcomes == {"created", "created_unnamed", "no_client", "create_failed", "raised"}

\* variant: a key that could not be renamed counts as failed
KeyCreated_renamed(outcome) == outcome = "created"

\* the turn reaches add_subscription_country and created_keys.append(country); the
\* answer of rename_outline_key is not looked at
KeyCreated(outcome) == outcome \in {"created", "created_unnamed"}

\* the outcomes of all countries, as the loop counts them
CreatedIn(outcomes) == [c \in OUTLINE_SERVERS |-> KeyCreated(outcomes[c])]

\* the text countries_chosen puts in place of the keyboard
countries_chosen_reply(a, country_package_id, created) ==
    LET subscription_id == Get(user_data[a], "pending_subscription_id", NoId)
        payment_id == Get(user_data[a], "payment_id", NoId)
        duration_id == Get(user_data[a], "selected_duration", None)
        st == create_keys([rows |-> subscription_countries, keys |-> outline_keys,
                           next_key |-> next_key, created_keys |-> <<>>],
                          subscription_id,
                          COUNTRY_PACKAGES[country_package_id].countries, created)
    IN  IF subscription_id = NoId \/ payment_id = NoId \/ duration_id = None
        THEN "missing_information"
        ELSE IF st.created_keys = <<>>
        THEN "activation_error"
        ELSE "activated"

\* callback countries_<package>
countries_chosen(a, country_package_id, created) ==
    LET subscription_id == Get(user_data[a], "pending_subscription_id", NoId)
        payment_id == Get(user_data[a], "payment_id", NoId)
        duration_id == Get(user_data[a], "selected_duration", None)
        st == create_keys([rows |-> subscription_countries, keys |-> outline_keys,
                           next_key |-> next_key, created_keys |-> <<>>],
                          subscription_id,
                          COUNTRY_PACKAGES[country_package_id].countries, created)
        subs1 == update_subscription_country_package(subscriptions, subscription_id,
                                                     country_package_id)
    IN
    /\ conv[a] = "CHOOSE_COUNTRIES"
    /\ conv' = [conv EXCEPT ![a] = END]
    /\ IF subscription_id = NoId \/ payment_id = NoId \/ duration_id = None
       THEN UNCHANGED <<storeVars, serverVars, user_data>>
       ELSE /\ subscription_countries' = st.rows
            /\ outline_keys' = st.keys
            /\ next_key' = st.next_key
            /\ IF st.created_keys = <<>>
               THEN /\ subscriptions' = subs1           \* raise, caught: no activation
                    /\ user_data' = user_data
               ELSE /\ subscriptions' = activate_subscription(subs1, subscription_id,
                            DURATION_PLANS[duration_id].duration_days, payment_id, now)
                    /\ user_data' = [user_data EXCEPT ![a] = EmptyDict]
    /\ activated' = activated \cup NowActive(subscriptions')
    /\ entered' = [entered EXCEPT ![a] = IF conv'[a] = END THEN None ELSE @]
    /\ UNCHANGED <<clockVars, adminVars, schedVars, next_ref, verified, calls>>
    /\ UNCHANGED <<existing_sub, minted_for>>
    /\ shown' = countries_chosen_reply(a, country_package_id, created)

\* variant: the cancellation also withdraws the rows of the user that wait for
\* their package
cancel_subscription_flow_rollback(a) ==
    /\ conv[a] \in UserConversationState
    /\ user_data' = [user_data EXCEPT ![a] = EmptyDict]
    /\ conv' = [conv EXCEPT ![a] = END]
    /\ subscriptions' = [i \in DOMAIN subscriptions |->
            IF subscriptions[i].user_id = a /\ subscriptions[i].status = "pending_payment"
            THEN [subscriptions[i] EXCEPT !.status = "expired"]
            ELSE subscriptions[i]]
    /\ entered' = [entered EXCEPT ![a] = IF conv'[a] = END THEN None ELSE @]
    /\ UNCHANGED <<clockVars, adminVars, subscription_countries, serverVars, schedVars,
                   next_ref, verified, activated, calls>>
    /\ UNCHANGED <<existing_sub, minted_for>>
    /\ shown' = None

\* callback cancel_subscription_flow in every state, /cancel as the fallback
cancel_subscription_flow(a) ==
    /\ conv[a] \in UserConversationState
    /\ user_data' = [user_data EXCEPT ![a] = EmptyDict]
    /\ conv' = [conv EXCEPT ![a] = END]
    /\ entered' = [entered EXCEPT ![a] = IF conv'[a] = END THEN None ELSE @]
    /\ UNCHANGED <<clockVars, adminVars, storeVars, serverVars, schedVars, next_ref,
                   verified, activated, calls>>
    /\ UNCHANGED <<existing_sub, minted_for>>
    /\ shown' = None

\* callback back_to_menu: a handler of the application, outside the conversation
back_to_menu_handler(a) ==
    /\ user_data' = [user_data EXCEPT ![a] = EmptyDict]
    /\ UNCHANGED <<clockVars, adminVars, storeVars, serverVars, schedVars, conv, next_ref,
                   verified, activated, entered, calls>>
    /\ UNCHANGED <<existing_sub, minted_for>>
    /\ shown' = None

\* a confirm_payment callback while the conversation is in no state that handles it:
\* no handler of the application matches, the update is dropped
unhandled_confirm_payment(a) ==
    /\ conv[a] # "AWAIT_PAYMENT_CONFIRMATION"
    /\ UNCHANGED stateVars
    /\ shown' = None

\* ---------------------------------------------------------- de-provisioning
\* delete_outline_key: the Outline server answers 204 only for a key it has, and
\* only when it is reached
delete_outline_key(keys, country, key_id, reachable) ==
    reachable /\ key_id \in keys[country]

\* the loop `for i, country in enumerate(countries)' of delete_expired_keys and of
\* handle_cancel_expired, from index i (counted from 1) on
RECURSIVE delete_keys(_, _, _, _, _)
delete_keys(st, key_ids, countries, reach, i) ==
    IF i > Len(countries)
    THEN st
    ELSE IF i <= Len(key_ids) /\ key_ids[i] # NoId
         THEN IF delete_outline_key(st.keys, countries[i], key_ids[i], reach[countries[i]])
              THEN delete_keys([keys |-> [st.keys EXCEPT ![countries[i]] = @ \ {key_ids[i]}],
                                deleted_count |-> st.deleted_count + 1],
                               key_ids, countries, reach, i + 1)
              ELSE delete_keys(st, key_ids, countries, reach, i + 1)
         ELSE delete_keys(st, key_ids, countries, reach, i + 1)

\* every key of the list is gone from its server
KeysGone(keys, key_ids, countries) ==
    \A i \in DOMAIN countries : i \in DOMAIN key_ids => key_ids[i] \notin keys[countries[i]]

\* the outcome message chosen from deleted_count and total_keys
DeletionReport(deleted_count, total_keys) ==
    IF deleted_count = total_keys THEN "all"
    ELSE IF deleted_count > 0 THEN "partial" ELSE "none"

\* variant: the handler does not compare the owner of the row with the sender
handle_cancel_expired_any_owner(a, sub_id, reach) ==
    IF sub_id \notin SubIds
    THEN UNCHANGED stateVars /\ shown' = None
    ELSE LET key_ids == KeyIdsOf(subscription_countries, sub_id)
             countries == CountriesOf(subscription_countries, sub_id)
             st == delete_keys([keys |-> outline_keys, deleted_count |-> 0],
                               key_ids, countries, reach, 1)
         IN  /\ outline_keys' = st.keys
             /\ subscriptions' = mark_subscription_expired(subscriptions, sub_id)
             /\ UNCHANGED <<clockVars, adminVars, subscription_countries, next_key, schedVars,
                            user_data, conv, next_ref, verified, activated, entered, calls>>
             /\ UNCHANGED <<existing_sub, minted_for>>
             /\ shown' = None

\* callback cancel_expired_<sub_id>: a handler of the application
handle_cancel_expired(a, sub_id, reach) ==
    IF sub_id \notin SubIds \/ subscriptions[sub_id].user_id # a
    THEN UNCHANGED stateVars /\ shown' = None
    ELSE LET key_ids == KeyIdsOf(subscription_countries, sub_id)
             countries == CountriesOf(subscription_countries, sub_id)
             st == delete_keys([keys |-> outline_keys, deleted_count |-> 0],
                               key_ids, countries, reach, 1)
         IN  /\ outline_keys' = st.keys
             /\ subscriptions' = mark_subscription_expired(subscriptions, sub_id)
             /\ UNCHANGED <<clockVars, adminVars, subscription_countries, next_key, schedVars,
                            user_data, conv, next_ref, verified, activated, entered, calls>>
             /\ UNCHANGED <<existing_sub, minted_for>>
             /\ shown' = None

\* --------------------------------------------------------------- administrator
\* variant: the row is written back whole, without its end
cancel_subscription_by_admin_replaced(subs, subscription_db_id) ==
    [i \in DOMAIN subs |->
        IF subs[i].id = subscription_db_id
        THEN [subs[i] EXCEPT !.status = "cancelled_by_admin", !.end_date = NoDate]
        ELSE subs[i]]

\* UPDATE subscriptions SET status = 'cancelled_by_admin' WHERE id = ?
cancel_subscription_by_admin(subs, subscription_db_id) ==
    [i \in DOMAIN subs |->
        IF subs[i].id = subscription_db_id
        THEN [subs[i] EXCEPT !.status = "cancelled_by_admin"]
        ELSE subs[i]]

\* get_all_active_subscriptions_for_admin: the ids listed (JOIN users, status filter)
AdminListed ==
    {n \in SubIds : /\ subscriptions[n].user_id \in users
                    /\ subscriptions[n].status \in {"active", "pending_payment", "expired"}}

\* get_subscription_for_admin: (id, user_id, status, key_ids, countries); the status
\* is left out of the copy the administrator's user_data keeps: it is only displayed
AdminDetails(n) ==
    [id |-> n, user_id |-> subscriptions[n].user_id,
     key_ids |-> KeyIdsOf(subscription_countries, n),
     countries |-> CountriesOf(subscription_countries, n)]

\* variant: the decorator lets every user through
admin_only_open(user_id) == TRUE

\* decorator admin_only: the wrapped handler runs for ADMIN_USER_ID alone
admin_only(user_id) == user_id = ADMIN_USER_ID

\* d without the keys ks: user_data.pop(k, None) for every k of ks
Remove(d, ks) == [x \in DOMAIN d \ ks |-> d[x]]

\* /admin_del_sub sent by user u: entry point of admin_delete_conversation, behind
\* admin_only and then rate_limit_command("admin_del_sub")
admin_delete_subscription_start(u) ==
    /\ admin_conv[u] = END
    /\ IF ~admin_only(u)
       THEN /\ UNCHANGED <<user_data, admin_conv>>
            /\ UNCHANGED <<existing_sub, minted_for>>
            /\ shown' = "admins_only"
       ELSE /\ user_data' = [user_data EXCEPT ![u] =
                    after_rate_limit(@, "command_admin_del_sub", wall)]
            /\ admin_conv' =
                    IF is_rate_limited(user_data[u], "command_admin_del_sub", wall)
                       \/ AdminListed = {}
                    THEN admin_conv
                    ELSE [admin_conv EXCEPT ![u] = "ADMIN_LIST_SUBS"]
            /\ UNCHANGED <<existing_sub, minted_for>>
            /\ shown' = None
    /\ UNCHANGED <<clockVars, users, storeVars, serverVars, schedVars,
                   conv, next_ref, verified, activated, entered, calls>>

\* callback admin_del_<id>, or the id typed as a message
admin_sub_chosen_for_deletion(u, sub_db_id_to_delete) ==
    /\ admin_conv[u] = "ADMIN_LIST_SUBS"
    /\ IF sub_db_id_to_delete \notin SubIds
       THEN UNCHANGED <<admin_conv, user_data>>
       ELSE /\ user_data' = [user_data EXCEPT ![u] =
                    Put(Put(@, "sub_to_delete_id", sub_db_id_to_delete),
                        "sub_to_delete_details", AdminDetails(sub_db_id_to_delete))]
            /\ admin_conv' = [admin_conv EXCEPT ![u] = "ADMIN_CONFIRM_DELETE_SUB"]
    /\ UNCHANGED <<clockVars, users, storeVars, serverVars, schedVars, conv,
                   next_ref, verified, activated, entered, calls>>
    /\ UNCHANGED <<existing_sub, minted_for>>
    /\ shown' = None

\* variant: the text depends on the UPDATE alone
admin_delete_reply_cancelled(all_keys_deleted, db_updated) ==
    IF db_updated THEN "cancelled_keys_deleted" ELSE "failed"

\* the text admin_confirm_delete_action sends after the deletions and the UPDATE
admin_delete_reply(all_keys_deleted, db_updated) ==
    IF all_keys_deleted /\ db_updated THEN "cancelled_keys_deleted"
    ELSE IF db_updated THEN "cancelled_keys_issue"
    ELSE "failed"

\* the flag all_keys_deleted of admin_confirm_delete_action: it stays True when the
\* details hold no key, and turns False when the lists differ in length or when
\* one delete_outline_key fails
all_keys_deleted(key_ids, countries, deleted_count) ==
    IF key_ids # <<>> /\ countries # <<>>
    THEN Len(key_ids) = Len(countries) /\ deleted_count = Len(key_ids)
    ELSE TRUE

\* callback admin_confirm_delete_yes / admin_confirm_delete_no
admin_confirm_delete_action(u, yes, reach) ==
    LET sub_db_id == Get(user_data[u], "sub_to_delete_id", NoId)
        d == user_data[u]["sub_to_delete_details"]
        st == IF d.key_ids # <<>> /\ d.countries # <<>> /\ Len(d.key_ids) = Len(d.countries)
              THEN delete_keys([keys |-> outline_keys, deleted_count |-> 0],
                               d.key_ids, d.countries, reach, 1)
              ELSE [keys |-> outline_keys, deleted_count |-> 0]
    IN
    /\ admin_conv[u] = "ADMIN_CONFIRM_DELETE_SUB"
    /\ admin_conv' = [admin_conv EXCEPT ![u] = END]
    /\ user_data' = [user_data EXCEPT ![u] =
            IF yes /\ sub_db_id = NoId
            THEN EmptyDict
            ELSE Remove(@, {"sub_to_delete_id", "sub_to_delete_details",
                            "admin_delete_page"})]
    /\ IF yes /\ sub_db_id # NoId
       THEN /\ outline_keys' = st.keys
            /\ subscriptions' = cancel_subscription_by_admin(subscriptions, sub_db_id)
       ELSE UNCHANGED <<outline_keys, subscriptions>>
    /\ UNCHANGED <<clockVars, users, subscription_countries, next_key, schedVars,
                   conv, next_ref, verified, activated, entered, calls>>
    /\ UNCHANGED <<existing_sub, minted_for>>
    /\ shown' = IF ~yes THEN "deletion_cancelled"
                ELSE IF sub_db_id = NoId THEN "details_not_found"
                ELSE admin_delete_reply(
                        all_keys_deleted(d.key_ids, d.countries, st.deleted_count),
                        sub_db_id \in SubIds)

\* callback admin_cancel_delete, /cancel as the fallback
admin_cancel_delete_flow(u) ==
    /\ admin_conv[u] \in AdminConversationState
    /\ admin_conv' = [admin_conv EXCEPT ![u] = END]
    /\ UNCHANGED <<clockVars, users, storeVars, serverVars, schedVars,
                   user_data, conv, next_ref, verified, activated, entered, calls>>
    /\ UNCHANGED <<existing_sub, minted_for>>
    /\ shown' = None

\* an admin_del_<id>, admin_confirm_delete_* or admin_cancel_delete callback of a
\* user whose admin_delete_conversation is in no state: no handler matches
unhandled_admin_callback(u) ==
    /\ admin_conv[u] = END
    /\ UNCHANGED stateVars
    /\ shown' = None

\* ------------------------------------------------------------------ scheduler
\* get_expired_soon_or_active_subscriptions: one row per active subscription
ActiveRows ==
    LET act == SelectSeq(subscriptions, LAMBDA s : s.status = "active")
    IN  [i \in DOMAIN act |->
            [sub_id |-> act[i].id, user_id |-> act[i].user_id, status |-> act[i].status,
             end_date |-> act[i].end_date,
             key_ids |-> KeyIdsOf(subscription_countries, act[i].id),
             countries |-> CountriesOf(subscription_countries, act[i].id)]]

\* check_expired_subscriptions, up to its loop: the rows and the time are read once
\* per pass; the job queue starts no pass while one is running
check_expired_subscriptions(pass) ==
    /\ scan = <<>>
    /\ pass = ActiveRows
    /\ pass # <<>>
    /\ scan' = [i \in DOMAIN pass |-> [sub |-> pass[i], now |-> now]]
    /\ UNCHANGED <<clockVars, adminVars, storeVars, serverVars, jobs, remindVars,
                   user_data, conv,
                   next_ref, verified, activated, entered, calls>>
    /\ UNCHANGED <<existing_sub, minted_for>>
    /\ shown' = None

\* `context.job.context' in the reminder branch: the scan job is registered without
\* data and a Job of the job queue has no attribute `context' (what a job carries is
\* job.data, as delete_expired_keys reads it), so the access raises AttributeError
\* inside the try of the branch
job_context_raises == TRUE

\* `(end_date - now).days <= 3 and (end_date - now).days >= 0', in the branch taken
\* when end_date <= now is false
expiring_soon(end_date, t) ==
    end_date > t /\ end_date - t <= 3

\* variant: the job has a context that is None: the reminder goes out, the attempt
\* to record it raises
send_reminder_each_pass(sub_id) ==
    TRUE

\* the reminder branch gets as far as bot.send_message
send_reminder(sub_id) ==
    ~job_context_raises /\ sub_id \notin reminded_subs

\* the turn raises outside every try of the loop, which ends the pass: fromisoformat
\* of an end_date that is None, or get_subscription_by_id raising for a due row
pass_aborted(sub, t, read_ok) ==
    \/ sub.end_date = NoDate
    \/ sub.status = "active" /\ sub.end_date <= t /\ ~read_ok

\* one turn of the loop of check_expired_subscriptions; sent: bot.send_message did
\* not raise; read_ok: get_subscription_by_id did not raise.  end_then is history:
\* the end_date the store held when the job was scheduled.
check_subscription(sent, read_ok) ==
    /\ scan # <<>>
    /\ LET sub == Head(scan).sub
           n == sub.sub_id
       IN  IF pass_aborted(sub, Head(scan).now, read_ok)
           THEN /\ scan' = <<>>
                /\ window_turns' = [window_turns EXCEPT ![n] = 0]
                /\ UNCHANGED <<jobs, reminded_subs, reminders>>
           ELSE IF sub.status = "active" /\ sub.end_date <= Head(scan).now
           THEN /\ Len(jobs) < MaxJobs
                /\ scan' = Tail(scan)
                /\ jobs' = IF sent
                           THEN Append(jobs,
                                   [sub_id |-> sub.sub_id, user_id |-> sub.user_id,
                                    key_ids |-> sub.key_ids, countries |-> sub.countries,
                                    end_then |-> subscriptions[sub.sub_id].end_date])
                           ELSE jobs
                /\ window_turns' = [window_turns EXCEPT ![n] = 0]
                /\ UNCHANGED <<reminded_subs, reminders>>
           ELSE IF sub.status = "active" /\ expiring_soon(sub.end_date, Head(scan).now)
           THEN /\ scan' = Tail(scan)
                /\ jobs' = jobs
                /\ window_turns' = [window_turns EXCEPT ![n] =
                                        IF @ < MaxTurns THEN @ + 1 ELSE @]
                /\ IF send_reminder(n) /\ sent
                   THEN /\ reminders' = [reminders EXCEPT ![n] =
                                            IF @ < MaxTurns THEN @ + 1 ELSE @]
                        /\ reminded_subs' = IF job_context_raises
                                            THEN reminded_subs
                                            ELSE reminded_subs \cup {n}
                   ELSE UNCHANGED <<reminded_subs, reminders>>
           ELSE /\ scan' = Tail(scan)
                /\ jobs' = jobs
                /\ window_turns' = [window_turns EXCEPT ![n] = 0]
                /\ UNCHANGED <<reminded_subs, reminders>>
    /\ UNCHANGED <<clockVars, adminVars, storeVars, serverVars, user_data, conv, next_ref,
                   verified, activated, entered, calls>>
    /\ UNCHANGED <<existing_sub, minted_for>>
    /\ shown' = None

\* `subscription and subscription[5] == 'active'' of delete_expired_keys
WasRenewed(sub_id) ==
    sub_id \in SubIds /\ ColumnEqualsText(subscriptions[sub_id], 5, "active")

\* the deferred job delete_expired_keys; jobs have the same delay and fire in the
\* order they were scheduled
delete_expired_keys(reach) ==
    /\ jobs # <<>>
    /\ jobs' = Tail(jobs)
    /\ LET job == Head(jobs)
           st == delete_keys([keys |-> outline_keys, deleted_count |-> 0],
                             job.key_ids, job.countries, reach, 1)
       IN  IF WasRenewed(job.sub_id)
           THEN UNCHANGED <<subscriptions, outline_keys>>
           ELSE /\ outline_keys' = st.keys
                /\ subscriptions' = mark_subscription_expired(subscriptions, job.sub_id)
    /\ UNCHANGED <<clockVars, adminVars, subscription_countries, next_key, scan, remindVars,
                   user_data, conv, next_ref, verified, activated, entered, calls>>
    /\ UNCHANGED <<existing_sub, minted_for>>
    /\ shown' = None

\* ------------------------------------------ the renewal in two store accesses
\* confirm_payment for a renewal up to get_subscription_by_id: the payment is
\* reported paid and verified, the row is read
renewal_read(a) ==
    LET payment_id == Get(user_data[a], "payment_id", NoId)
        payment_type == Get(user_data[a], "payment_type", None)
        duration_id == Get(user_data[a], "selected_duration", None)
        renewing_sub_id == Get(user_data[a], "renewing_sub_id", NoId)
    IN
    /\ conv[a] = "AWAIT_PAYMENT_CONFIRMATION"
    /\ existing_sub = <<>>
    /\ payment_id # NoId /\ payment_type # None /\ duration_id # None
    /\ renewing_sub_id \in SubIds
    /\ verified' = verified \cup {<<a, payment_id>>}
    /\ existing_sub' = <<[user |-> a, row |-> subscriptions[renewing_sub_id]]>>
    /\ UNCHANGED <<clockVars, adminVars, storeVars, serverVars, schedVars, user_data, conv,
                   next_ref, activated, entered, calls, minted_for>>
    /\ shown' = None

\* the rest of it: new_end_date from the row that was read, the UPDATE, the answer
renewal_write(a) ==
    LET payment_id == Get(user_data[a], "payment_id", NoId)
        duration_id == Get(user_data[a], "selected_duration", None)
        renewing_sub_id == Get(user_data[a], "renewing_sub_id", NoId)
    IN
    /\ existing_sub # <<>>
    /\ existing_sub[1].user = a
    /\ existing_sub' = <<>>
    /\ IF existing_sub[1].row.end_date = NoDate
       THEN /\ UNCHANGED <<subscriptions, conv>>           \* fromisoformat(None), caught
            /\ shown' = "processing_error"
       ELSE /\ subscriptions' = renew_subscription(subscriptions,
                     new_end_date(existing_sub[1].row.end_date,
                                  DURATION_PLANS[duration_id].duration_days),
                     payment_id, renewing_sub_id, a)
            /\ conv' = [conv EXCEPT ![a] = END]
            /\ shown' = "renewed"
    /\ activated' = activated \cup NowActive(subscriptions')
    /\ entered' = [entered EXCEPT ![a] = IF conv'[a] = END THEN None ELSE @]
    /\ UNCHANGED <<clockVars, adminVars, subscription_countries, serverVars, schedVars,
                   user_data, next_ref, verified, calls, minted_for>>

\* ---------------------------------------------------------------------- time
AdvanceTime ==
    /\ \E t \in TimePoints : t > now
    /\ now' = CHOOSE t \in TimePoints : t > now /\ \A u \in TimePoints : u > now => t <= u
    /\ UNCHANGED <<wall, adminVars, storeVars, serverVars, schedVars, user_data, conv, next_ref,
                   verified, activated, entered, calls>>
    /\ UNCHANGED <<existing_sub, minted_for>>
    /\ shown' = None

AdvanceWall ==
    /\ wall < MaxWall
    /\ wall' = wall + 1
    /\ UNCHANGED <<now, adminVars, storeVars, serverVars, schedVars, user_data, conv, next_ref,
                   verified, activated, entered, calls>>
    /\ UNCHANGED <<existing_sub, minted_for>>
    /\ shown' = None

\* ------------------------------------------------------------- specification
PaymentStatus == {"paid", "succeeded", "not_found", "error", "pending"}

Reach == [OUTLINE_SERVERS -> BOOLEAN]

\* every server answers
AllReachable == [c \in OUTLINE_SERVERS |-> TRUE]

\* the provider mints every payment it is asked for; a request it refuses takes
\* the conversation where back_to_duration takes it and is followed in SpecPay
UserEvent(a) ==
    \/ start_command(a)
    \/ help_command(a)
    \/ subscribe_command(a)
    \/ menu_subscribe_handler(a)
    \/ \E n \in 1..MaxSubs : handle_renewal(a, n)
    \/ \E p \in Plans : duration_chosen(a, p)
    \/ \E b \in PaymentButtons : payment_method_chosen(a, b, TRUE)
    \/ back_to_duration_handler(a)
    \/ \E s \in PaymentStatus, v \in BOOLEAN : confirm_payment(a, s, v)
    \/ \E k \in Packages, c \in Reach : countries_chosen(a, k, c)
    \/ cancel_subscription_flow(a)
    \/ back_to_menu_handler(a)
    \/ unhandled_confirm_payment(a)
    \/ \E n \in 1..MaxSubs, r \in Reach : handle_cancel_expired(a, n, r)

\* what a user does to the subscriptions of others: the callbacks that name an id
ForeignEvent(a) ==
    \/ \E n \in 1..MaxSubs : handle_renewal(a, n)
    \/ \E n \in 1..MaxSubs, r \in Reach : handle_cancel_expired(a, n, r)

SchedulerEvent ==
    \/ \E pass \in {ActiveRows} : check_expired_subscriptions(pass)
    \/ \E sent, read_ok \in BOOLEAN : check_subscription(sent, read_ok)
    \/ \E r \in Reach : delete_expired_keys(r)

\* one subscriber with every event, a second user who tries the first one's ids
Next ==
    \/ UserEvent(1)
    \/ ForeignEvent(2)
    \/ SchedulerEvent
    \/ AdvanceTime

Spec == Init /\ [][Next]_vars


\* the scheduler of the job queue runs the repeating scan and every job that is due
LiveSpec ==
    /\ Init
    /\ [][Next]_vars
    /\ WF_vars(\E pass \in {ActiveRows} : check_expired_subscriptions(pass))
    /\ WF_vars(\E sent, read_ok \in BOOLEAN : check_subscription(sent, read_ok))
    /\ WF_vars(\E r \in Reach : delete_expired_keys(r))

\* ------------------------------------------- the lifecycle with the administrator
AdminEvent(u) ==
    \/ admin_delete_subscription_start(u)
    \/ \E n \in 1..MaxSubs : admin_sub_chosen_for_deletion(u, n)
    \/ \E yes \in BOOLEAN, r \in Reach : admin_confirm_delete_action(u, yes, r)
    \/ admin_cancel_delete_flow(u)

\* the events of a subscriber that reach the store
LifeEvent(a) ==
    \/ start_command(a)
    \/ menu_subscribe_handler(a)
    \/ \E n \in 1..MaxSubs : handle_renewal(a, n)
    \/ \E p \in Plans : duration_chosen(a, p)
    \/ \E b \in PaymentButtons : payment_method_chosen(a, b, TRUE)
    \/ \E s \in PaymentStatus, v \in BOOLEAN : confirm_payment(a, s, v)
    \/ \E k \in Packages, c \in Reach : countries_chosen(a, k, c)
    \/ cancel_subscription_flow(a)
    \/ \E n \in 1..MaxSubs, r \in Reach : handle_cancel_expired(a, n, r)

NextAdmin ==
    \/ LifeEvent(1)
    \/ SchedulerEvent
    \/ AdminEvent(ADMIN_USER_ID)
    \/ AdvanceTime

SpecAdmin == Init /\ [][NextAdmin]_vars

\* every user sends the command and the callbacks of the administrator's flow,
\* while user 1 buys, renews and cancels
NextGate ==
    \/ LifeEvent(1)
    \/ \E u \in Users : AdminEvent(u)
    \/ \E u \in Users : unhandled_admin_callback(u)
    \/ AdvanceTime

SpecGate == Init /\ [][NextGate]_vars

\* the administrator is a subscriber as well: one user, ADMIN_USER_ID, sends the
\* events of both conversations, which share that user's user_data
NextOwner ==
    \/ LifeEvent(ADMIN_USER_ID)
    \/ back_to_menu_handler(ADMIN_USER_ID)
    \/ AdminEvent(ADMIN_USER_ID)
    \/ AdvanceTime

SpecOwner == Init /\ [][NextOwner]_vars

\* the purchase and renewal conversation of one user over both plans and both
\* payment buttons, with a provider that mints the payment or refuses
PaymentRails == {"crypto", "card"}

PlanChoices == DOMAIN DURATION_PLANS

NextPay ==
    \/ subscribe_command(1)
    \/ \E n \in 1..MaxSubs : handle_renewal(1, n)
    \/ \E p \in PlanChoices : duration_chosen(1, p)
    \/ \E b \in PaymentRails, m \in BOOLEAN : payment_method_chosen(1, b, m)
    \/ back_to_duration_handler(1)
    \/ \E s \in PaymentStatus, v \in BOOLEAN : confirm_payment(1, s, v)
    \/ \E k \in Packages, c \in Reach : countries_chosen(1, k, c)
    \/ cancel_subscription_flow(1)
    \/ back_to_menu_handler(1)
    \/ AdvanceTime

SpecPay == Init /\ [][NextPay]_vars

\* the renewal of user 1 in two store accesses, with the administrator's flow and
\* the clock free to act between the read and the write
NextRace ==
    \/ existing_sub = <<>> /\ LifeEvent(1)
    \/ renewal_read(1)
    \/ renewal_write(1)
    \/ AdminEvent(ADMIN_USER_ID)
    \/ AdvanceTime

SpecRace == Init /\ [][NextRace]_vars

\* one purchase of user 1, with every outcome of the loop over the countries
NextProvision ==
    \/ subscribe_command(1)
    \/ \E p \in Plans : duration_chosen(1, p)
    \/ \E b \in PaymentRails : payment_method_chosen(1, b, TRUE)
    \/ \E s \in PaymentStatus, v \in BOOLEAN : confirm_payment(1, s, v)
    \/ \E k \in Packages, o \in [OUTLINE_SERVERS -> Outcomes] :
            countries_chosen(1, k, CreatedIn(o))
    \/ cancel_subscription_flow(1)
    \/ AdvanceTime

SpecProvision == Init /\ [][NextProvision]_vars

\* the conversation of user 1 over both plans when the client also sends callback
\* data that the pattern ^pay_ matches and no button carries
PayCallbacks == PaymentRails \cup {"other"}

NextPayload ==
    \/ subscribe_command(1)
    \/ \E n \in 1..MaxSubs : handle_renewal(1, n)
    \/ \E p \in PlanChoices : duration_chosen(1, p)
    \/ \E b \in PayCallbacks, m \in BOOLEAN : payment_method_chosen(1, b, m)
    \/ back_to_duration_handler(1)
    \/ /\ \A n \in SubIds : subscriptions[n].end_date < MaxEnd
       /\ \E s \in PaymentStatus, v \in BOOLEAN : confirm_payment(1, s, v)
    \/ \E k \in Packages, c \in Reach : countries_chosen(1, k, c)
    \/ cancel_subscription_flow(1)
    \/ AdvanceTime

SpecPayload == Init /\ [][NextPayload]_vars

\* an empty store and servers without keys
NoPurchase ==
    [subs |-> <<>>, rows |-> <<>>,
     keys |-> [c \in OUTLINE_SERVERS |-> {}],
     next_key |-> [c \in OUTLINE_SERVERS |-> 1]]

\* the store and the servers after user a bought 1_month with the package standard,
\* paid with the payment id a, every key created
Bought(st, a) ==
    LET n == Len(st.subs) + 1
        k == create_keys([rows |-> st.rows, keys |-> st.keys,
                          next_key |-> st.next_key, created_keys |-> <<>>],
                         n, COUNTRY_PACKAGES["standard"].countries, AllReachable)
    IN  [subs |-> activate_subscription(
                      update_subscription_country_package(
                          create_subscription_record(st.subs, a, "1_month"),
                          n, "standard"),
                      n, DURATION_PLANS["1_month"].duration_days, a, 0),
         rows |-> k.rows, keys |-> k.keys, next_key |-> k.next_key]

\* the store and the servers after two purchases: users 1 and 2 have each bought
\* the 1_month plan with the standard package at time 0, paid with the references
\* 1 and 2, and both servers have created their keys
TwoPurchases == Bought(Bought(NoPurchase, 1), 2)

\* the scheduler alone, from the state after the two purchases
InitScan ==
    /\ now = 0
    /\ wall = WallStart
    /\ subscriptions = TwoPurchases.subs
    /\ subscription_countries = TwoPurchases.rows
    /\ outline_keys = TwoPurchases.keys
    /\ next_key = TwoPurchases.next_key
    /\ user_data = [a \in Users |-> EmptyDict]
    /\ conv = [a \in Users |-> END]
    /\ next_ref = 3
    /\ verified = {<<1, 1>>, <<2, 2>>}
    /\ activated = {1, 2}
    /\ entered = [a \in Users |-> None]
    /\ scan = <<>>
    /\ jobs = <<>>
    /\ reminded_subs = {}
    /\ reminders = [n \in 1..2 |-> 0]
    /\ window_turns = [n \in 1..2 |-> 0]
    /\ users = {}
    /\ admin_conv = [u \in Users |-> END]
    /\ calls = <<>>
    /\ existing_sub = <<>>
    /\ minted_for = <<"1_month", "1_month">>
    /\ shown = None

NextScan ==
    \/ SchedulerEvent
    \/ AdvanceTime

SpecScan == InitScan /\ [][NextScan]_vars

\* the scheduler on its own, fair as in LiveSpec, with servers that recover: the job
\* that fires again and again finds every server reachable again and again
LiveSpecScan ==
    /\ InitScan
    /\ [][NextScan]_vars
    /\ WF_vars(\E pass \in {ActiveRows} : check_expired_subscriptions(pass))
    /\ WF_vars(\E sent, read_ok \in BOOLEAN : check_subscription(sent, read_ok))
    /\ WF_vars(\E r \in Reach : delete_expired_keys(r))
    /\ SF_vars(delete_expired_keys(AllReachable))

\* ----------------------------------------------------- rate limiter on its own
LimitTypes == {"command_subscribe", "command_start"}

\* variant: one dict of timestamps for all users
RateLimitCall_shared(a, limit_type) ==
    /\ Len(calls) < MaxCalls
    /\ calls' = Append(calls, [a |-> a, limit_type |-> limit_type, t |-> wall,
                               limited |-> is_rate_limited(user_data[a], limit_type, wall)])
    /\ user_data' = [u \in Users |-> after_rate_limit(user_data[a], limit_type, wall)]
    /\ UNCHANGED <<clockVars, adminVars, storeVars, serverVars, schedVars, conv,
                   next_ref, verified, activated, entered, existing_sub,
                   minted_for>>
    /\ shown' = None

\* one call of is_rate_limited, written to the history with its answer
RateLimitCall(a, limit_type) ==
    /\ Len(calls) < MaxCalls
    /\ calls' = Append(calls, [a |-> a, limit_type |-> limit_type, t |-> wall,
                               limited |-> is_rate_limited(user_data[a], limit_type, wall)])
    /\ user_data' = [user_data EXCEPT ![a] = after_rate_limit(@, limit_type, wall)]
    /\ UNCHANGED <<clockVars, adminVars, storeVars, serverVars, schedVars, conv,
                   next_ref, verified,
                   activated, entered>>
    /\ UNCHANGED <<existing_sub, minted_for>>
    /\ shown' = None

NextRate ==
    \/ \E k \in LimitTypes : RateLimitCall(1, k)
    \/ AdvanceWall

SpecRate == Init /\ [][NextRate]_vars

\* two users call the rate limiter in any order
NextRateTwo ==
    \/ \E a \in Actors, k \in LimitTypes : RateLimitCall(a, k)
    \/ AdvanceWall

SpecRateTwo == Init /\ [][NextRateTwo]_vars

\* ------------------------------------------------------------------ properties
\* the keys of the flow in user_data, the bookkeeping of the rate limiter aside
FlowData(d) == DOMAIN d \ {"last_action_times"}

\* the wrapper let the command through to its handler
Handled(a, command_name) == ~is_rate_limited(user_data[a], "command_" \o command_name, wall)

\* C1: in every reachable state a subscription is active only if a payment held by
\* its owner's conversation was reported paid and verified, and at least one row of
\* subscription_countries exists for it.
ActiveOnlyPaidAndProvisioned ==
    \A n \in SubIds :
        subscriptions[n].status = "active" =>
            /\ <<subscriptions[n].user_id, subscriptions[n].payment_id>> \in verified
            /\ RowsOf(subscription_countries, n) # <<>>

\* an active subscription after a purchase and a renewal, each with its own payment
ActiveAfterTwoPayments ==
    \E n \in SubIds :
        /\ subscriptions[n].status = "active"
        /\ subscriptions[n].payment_id = 2
        /\ {<<1, 1>>, <<1, 2>>} \subseteq verified
        /\ Len(RowsOf(subscription_countries, n)) = 1

\* the job at the head of the queue is for a subscription renewed since the job was
\* scheduled: active, with an end_date later than the one the scan saw
HeadJobRenewed ==
    /\ jobs # <<>>
    /\ Head(jobs).sub_id \in SubIds
    /\ subscriptions[Head(jobs).sub_id].status = "active"
    /\ subscriptions[Head(jobs).sub_id].end_date > Head(jobs).end_then

\* C2: when a subscription is renewed after its deferred job was scheduled and
\* before the job fires, the job is a no-op: no key is deleted on any server and the
\* status stays active.
DeferredJobSkipsRenewed ==
    [][\A r \in Reach :
          (HeadJobRenewed /\ delete_expired_keys(r)) =>
              /\ outline_keys' = outline_keys
              /\ subscriptions' = subscriptions]_vars

\* subscription n is active and its end_date has passed
Due(n) ==
    /\ n \in SubIds
    /\ subscriptions[n].status = "active"
    /\ subscriptions[n].end_date <= now

\* C3: an active subscription whose end_date has passed and that is not renewed
\* eventually has status expired, under fair scheduling of scan passes and jobs
\* (a subscription stops being due by expiring or by being renewed).
DueEventuallyExpired ==
    \A n \in 1..MaxSubs : Due(n) ~> ~Due(n)

\* a confirm_payment step of user a that renews subscription n
RenewalStep(a, n) ==
    /\ Get(user_data[a], "renewing_sub_id", NoId) = n
    /\ n \in SubIds
    /\ conv'[a] = END
    /\ \E s \in PaymentStatus : confirm_payment(a, s, TRUE) /\ payment_confirmed(s, TRUE)

\* C4: every successful renewal with a plan of D days stores the end_date held
\* before plus D, whatever the current time, with status active.
RenewalExtendsEndDate ==
    [][\A n \in 1..MaxSubs :
          RenewalStep(1, n) =>
              /\ subscriptions'[n].end_date = subscriptions[n].end_date
                    + DURATION_PLANS[user_data[1]["selected_duration"]].duration_days
              /\ subscriptions'[n].status = "active"]_vars

\* a subscription renewed after its end_date had passed: the scan had found it due
\* and the store now holds that end_date plus the 30 days of the plan, while the
\* clock is past the old end_date
RenewedAfterExpiry ==
    /\ HeadJobRenewed
    /\ subscriptions[Head(jobs).sub_id].end_date = Head(jobs).end_then + 30
    /\ now > Head(jobs).end_then

\* the rows of subscription n for country c
RowsFor(rows, n, c) ==
    {i \in DOMAIN rows : rows[i].subscription_id = n /\ rows[i].country_code = c}

\* C5: when a package is chosen for a paid purchase, one row is stored per country
\* whose key was created and none per country that failed, and the subscription
\* is activated, with end_date = now + plan duration, iff some country succeeded.
ProvisionPartition ==
    [][\A k \in Packages, created \in Reach :
          LET n == Get(user_data[1], "pending_subscription_id", NoId)
              succeeded == {c \in OUTLINE_SERVERS : created[c]}
          IN  (n \in SubIds /\ countries_chosen(1, k, created)) =>
                /\ \A c \in succeeded :
                      Cardinality(RowsFor(subscription_countries', n, c)) = 1
                /\ \A c \in OUTLINE_SERVERS \ succeeded :
                      RowsFor(subscription_countries', n, c) = {}
                /\ succeeded # {} =>
                      /\ subscriptions'[n].status = "active"
                      /\ subscriptions'[n].end_date = now
                            + DURATION_PLANS[user_data[1]["selected_duration"]].duration_days
                /\ succeeded = {} =>
                      /\ subscriptions'[n].status # "active"
                      /\ subscriptions'[n].status = subscriptions[n].status]_vars

\* germany succeeded and amsterdam failed: active with the one row of germany
ActiveWithOneRegion ==
    \E n \in SubIds :
        /\ subscriptions[n].status = "active"
        /\ subscriptions[n].payment_id = 1
        /\ CountriesOf(subscription_countries, n) = <<"germany">>
        /\ outline_keys["amsterdam"] = {} /\ next_key["amsterdam"] = 1

\* C6: a de-provisioning run over a subscription all of whose keys were deleted by
\* an earlier run reports every key as handled (deleted_count = total_keys) and
\* changes neither the servers nor the store.
DeprovisionIdempotent ==
    [][\A n \in 1..MaxSubs :
          LET key_ids == KeyIdsOf(subscription_countries, n)
              countries == CountriesOf(subscription_countries, n)
              st == delete_keys([keys |-> outline_keys, deleted_count |-> 0],
                                key_ids, countries, AllReachable, 1)
          IN  (/\ n \in SubIds
               /\ subscriptions[n].user_id = 1
               /\ key_ids # <<>>
               /\ KeysGone(outline_keys, key_ids, countries)
               /\ handle_cancel_expired(1, n, AllReachable)) =>
                    /\ DeletionReport(st.deleted_count, Len(key_ids)) = "all"
                    /\ outline_keys' = outline_keys
                    /\ subscriptions' = subscriptions]_vars

\* C7: when a user starts a new flow while an earlier one awaits the confirmation of
\* payment R, R is gone from user_data afterwards, and a late confirm_payment of
\* the old flow creates and changes no subscription.
NewFlowDiscardsPayment ==
    [][/\ (/\ conv[1] = "AWAIT_PAYMENT_CONFIRMATION"
           /\ "payment_id" \in DOMAIN user_data[1]
           /\ conv'[1] = "CHOOSE_DURATION") => "payment_id" \notin DOMAIN user_data'[1]
       /\ (conv[1] = "CHOOSE_DURATION" /\ unhandled_confirm_payment(1)) =>
              subscriptions' = subscriptions]_vars

\* C8: after /start, /help or /subscribe was handled, user_data holds nothing of an
\* earlier flow; /subscribe also leaves the conversation in CHOOSE_DURATION.
EntryCommandsClearData ==
    [][/\ (Handled(1, "start") /\ start_command(1)) => FlowData(user_data'[1]) = {}
       /\ (Handled(1, "help") /\ help_command(1)) => FlowData(user_data'[1]) = {}
       /\ (Handled(1, "subscribe") /\ subscribe_command(1)) =>
              /\ FlowData(user_data'[1]) = {}
              /\ conv'[1] = "CHOOSE_DURATION"]_vars

\* the positions in the history of the calls of one category, in order
CallsOf(limit_type) ==
    LET RECURSIVE pick(_)
        pick(i) == IF i > Len(calls) THEN <<>>
                   ELSE IF calls[i].limit_type = limit_type
                        THEN <<i>> \o pick(i + 1) ELSE pick(i + 1)
    IN  pick(1)

\* C9: from no recorded timestamp, the first call of a category is allowed; the
\* second is rejected when it comes less than the interval after the first and
\* allowed when it comes at least the interval after it.
FirstTwoCalls ==
    \A k \in LimitTypes :
        LET p == CallsOf(k)
        IN  /\ Len(p) >= 1 => ~calls[p[1]].limited
            /\ Len(p) >= 2 =>
                  (calls[p[2]].limited <=> calls[p[2]].t - calls[p[1]].t < RateLimitOf(k))

\* one category answered (allowed, rejected) less than its interval apart, and
\* another (allowed, allowed) exactly its interval apart
BothAnswersSeen ==
    /\ Len(calls) = 4
    /\ \E k \in LimitTypes :
          LET p == CallsOf(k)
          IN  Len(p) = 2 /\ calls[p[2]].limited /\ calls[p[2]].t > calls[p[1]].t
    /\ \E k \in LimitTypes :
          LET p == CallsOf(k)
          IN  /\ Len(p) = 2 /\ ~calls[p[2]].limited
              /\ calls[p[2]].t = calls[p[1]].t + RateLimitOf(k)

\* the timestamp is_rate_limited holds for a category
StoredTime(d, limit_type) == Get(LastActionTimes(d), limit_type, 0)

\* C10: a rejected call leaves the stored timestamp of its category unchanged and
\* an allowed call sets it to the current time; so after an allowed call at t a
\* call at t + interval or later is allowed, whatever was rejected in between.
RejectedCallsKeepTimestamp ==
    /\ [][calls' # calls =>
            LET c == calls'[Len(calls')]
            IN  StoredTime(user_data'[c.a], c.limit_type) =
                    IF c.limited THEN StoredTime(user_data[c.a], c.limit_type) ELSE c.t]_vars
    /\ [](\A k \in LimitTypes :
            LET p == CallsOf(k)
            IN  \A i, j \in DOMAIN p :
                    (/\ i < j
                     /\ ~calls[p[i]].limited
                     /\ \A m \in DOMAIN p : (i < m /\ m < j) => calls[p[m]].limited
                     /\ calls[p[j]].t >= calls[p[i]].t + RateLimitOf(k))
                        => ~calls[p[j]].limited)

\* allowed, then rejected twice at different times, then allowed one interval after
\* the first call
AllowedAfterRejections ==
    \E k \in LimitTypes :
        LET p == CallsOf(k)
        IN  /\ Len(p) = 4
            /\ ~calls[p[1]].limited /\ calls[p[2]].limited /\ calls[p[3]].limited
            /\ calls[p[3]].t > calls[p[2]].t
            /\ ~calls[p[4]].limited
            /\ calls[p[4]].t = calls[p[1]].t + RateLimitOf(k)

NoReturnToPending ==
    [][/\ \A n \in SubIds :
              subscriptions[n].status # "pending_payment" =>
                  subscriptions'[n].status # "pending_payment"
       /\ \A n \in DOMAIN subscriptions' :
              subscriptions'[n].status = "pending_payment" =>
                  (n \notin SubIds \/ subscriptions[n].status = "pending_payment")]_vars

\* a subscription that was activated, expired, was renewed and then cancelled by
\* the administrator
CancelledAfterRenewal ==
    \E n \in SubIds :
        /\ subscriptions[n].status = "cancelled_by_admin"
        /\ subscriptions[n].payment_id = 2
        /\ \E j \in DOMAIN jobs : jobs[j].sub_id = n

\* C13: expired and cancelled_by_admin are terminal: no step changes the status of
\* a subscription that has one of them.
TerminalStatusesStay ==
    [][\A n \in SubIds :
          subscriptions[n].status \in {"expired", "cancelled_by_admin"} =>
              subscriptions'[n].status = subscriptions[n].status]_vars

\* C14: in every reachable state there is at most one row of subscription_countries
\* for a subscription and a country.
OneRowPerCountry ==
    \A n \in 1..MaxSubs, c \in OUTLINE_SERVERS :
        Cardinality(RowsFor(subscription_countries, n, c)) <= 1

\* a subscription with a row for each of the two countries that was renewed and
\* then cancelled by its owner
TwoRowsRenewedCancelled ==
    \E n \in SubIds :
        /\ Len(RowsOf(subscription_countries, n)) = 2
        /\ subscriptions[n].payment_id = 2
        /\ subscriptions[n].status = "expired"
        /\ jobs = <<>>

\* C15: a pending_payment subscription has start_date and end_date unset, an active
\* one has end_date set, and an expired or cancelled_by_admin one has end_date set
\* iff it was active at some earlier point.
DatesFollowStatus ==
    \A n \in SubIds :
        LET s == subscriptions[n]
        IN  /\ s.status = "pending_payment" =>
                  s.start_date = NoDate /\ s.end_date = NoDate
            /\ s.status = "active" => s.end_date # NoDate
            /\ s.status \in {"expired", "cancelled_by_admin"} =>
                  (s.end_date # NoDate <=> n \in activated)

\* a subscription that was active and is expired, its end_date kept
ExpiredWasActive ==
    \E n \in SubIds :
        /\ subscriptions[n].status = "expired"
        /\ n \in activated
        /\ subscriptions[n].end_date = 30
        /\ now = 31

\* a confirm_payment step of user a with a paid and verified payment, in a flow
\* that came in by /subscribe or the menu
PurchaseConfirmed(a) ==
    /\ entered[a] = "subscribe"
    /\ Get(user_data[a], "payment_id", NoId) # NoId
    /\ Get(user_data[a], "selected_duration", None) # None
    /\ \E s \in PaymentStatus : confirm_payment(a, s, TRUE) /\ payment_confirmed(s, TRUE)

\* C16: in a flow entered through /subscribe or the menu, a successful payment
\* confirmation adds one row with status pending_payment and the chosen plan,
\* moves the conversation to CHOOSE_COUNTRIES and changes no row that existed.
PurchaseCreatesRow ==
    [][PurchaseConfirmed(1) =>
          /\ Len(subscriptions') = Len(subscriptions) + 1
          /\ subscriptions'[Len(subscriptions')].status = "pending_payment"
          /\ subscriptions'[Len(subscriptions')].duration_plan_id =
                user_data[1]["selected_duration"]
          /\ conv'[1] = "CHOOSE_COUNTRIES"
          /\ \A n \in SubIds : subscriptions'[n] = subscriptions[n]]_vars

\* the columns the renewal UPDATE does not name
ColumnsKept == {"id", "user_id", "duration_plan_id", "country_package_id", "start_date"}

\* C17: a successful renewal changes only end_date, status and payment_id of the
\* renewed subscription: every other column and every other row stay, no row is
\* added to subscriptions or subscription_countries, no key is created on any
\* server, and the conversation goes from AWAIT_PAYMENT_CONFIRMATION to END.
RenewalChangesOnlyRenewed ==
    [][\A r \in 1..MaxSubs :
          RenewalStep(1, r) =>
              /\ Len(subscriptions') = Len(subscriptions)
              /\ \A n \in SubIds \ {r} : subscriptions'[n] = subscriptions[n]
              /\ \A col \in ColumnsKept : subscriptions'[r][col] = subscriptions[r][col]
              /\ subscription_countries' = subscription_countries
              /\ outline_keys' = outline_keys
              /\ next_key' = next_key
              /\ conv[1] = "AWAIT_PAYMENT_CONFIRMATION"
              /\ conv'[1] = END]_vars

\* a renewed subscription after the flow has ended: it started at 0 with a 30 day
\* plan, holds an end_date of two plans, a payment made after the first one, and
\* the rows and keys of its purchase
RenewedKeepsKeys ==
    \E n \in SubIds :
        /\ shown = "renewed"
        /\ conv[1] = END
        /\ subscriptions[n].status = "active"
        /\ subscriptions[n].start_date = 0
        /\ subscriptions[n].end_date = 60
        /\ subscriptions[n].payment_id = 2
        /\ Len(RowsOf(subscription_countries, n)) = 2

\* no server of the package answers create_key with a key
AllCountriesFail(country_package_id, created) ==
    \A i \in DOMAIN COUNTRY_PACKAGES[country_package_id].countries :
        ~created[COUNTRY_PACKAGES[country_package_id].countries[i]]

\* C18: when the creation of the key fails for every country of the chosen
\* package, the pending subscription keeps status pending_payment with start_date
\* and end_date unset, it has no row in subscription_countries and no key is
\* created, the user is shown the activation error and the conversation ends.
AllFailKeepsPending ==
    [][\A k \in Packages, created \in Reach :
          LET n == Get(user_data[1], "pending_subscription_id", NoId)
          IN  (/\ countries_chosen(1, k, created)
               /\ AllCountriesFail(k, created)
               /\ n \in SubIds
               /\ subscriptions[n].status = "pending_payment"
               /\ Get(user_data[1], "payment_id", NoId) # NoId
               /\ Get(user_data[1], "selected_duration", None) # None) =>
                /\ subscriptions'[n].status = "pending_payment"
                /\ subscriptions'[n].start_date = NoDate
                /\ subscriptions'[n].end_date = NoDate
                /\ RowsOf(subscription_countries', n) = <<>>
                /\ outline_keys' = outline_keys
                /\ shown' = "activation_error"
                /\ conv'[1] = END]_vars

\* a pending subscription whose package was chosen and whose flow has ended: it
\* has no row and no date, and the data of the flow is still there
PendingAfterAllFailed ==
    \E n \in SubIds :
        /\ subscriptions[n].status = "pending_payment"
        /\ subscriptions[n].country_package_id # None
        /\ subscriptions[n].end_date = NoDate
        /\ RowsOf(subscription_countries, n) = <<>>
        /\ conv[1] = END
        /\ Get(user_data[1], "pending_subscription_id", NoId) = n

\* C19: in AWAIT_PAYMENT_CONFIRMATION, for every answer of the provider other
\* than paid and verified, the confirm_payment callback creates and changes no
\* subscription, keeps the conversation in AWAIT_PAYMENT_CONFIRMATION with the same
\* payment_id, and sends the user a text with the retry button.
UnpaidPromptsRetry ==
    [][\A s \in PaymentStatus, v \in BOOLEAN :
          (/\ confirm_payment(1, s, v)
           /\ ~((s = "paid" \/ s = "succeeded") /\ v)
           /\ Get(user_data[1], "payment_id", NoId) # NoId
           /\ Get(user_data[1], "payment_type", None) # None) =>
            /\ subscriptions' = subscriptions
            /\ subscription_countries' = subscription_countries
            /\ conv'[1] = "AWAIT_PAYMENT_CONFIRMATION"
            /\ Get(user_data'[1], "payment_id", NoId) = Get(user_data[1], "payment_id", NoId)
            /\ shown' \in RetryPrompts]_vars

\* the last step was a confirm_payment of user 1 that asked the provider: these
\* texts are sent after get_payment_status only, and time.time() has not moved since
JustPolled == shown \in {"verification_failed", "payment_not_found"}

\* C20: every payment check passes the rate limiter under "callback": a
\* confirm_payment callback that follows another one of the same user within
\* CALLBACK_RATE_LIMIT seconds is dropped, the provider is not asked, nothing is
\* changed and nothing is answered.
SecondCheckDropped ==
    [][\A s \in PaymentStatus, v \in BOOLEAN :
          (JustPolled /\ confirm_payment(1, s, v)) =>
              /\ UNCHANGED stateVars
              /\ shown' = None]_vars

\* C21: a cancellation in CHOOSE_DURATION, CHOOSE_PAYMENT,
\* AWAIT_PAYMENT_CONFIRMATION or CHOOSE_COUNTRIES ends the conversation, empties
\* the user_data of the user and leaves every row of subscriptions and of
\* subscription_countries as it was: a pending_payment row stays.
CancelKeepsRows ==
    [][cancel_subscription_flow(1) =>
          /\ conv[1] \in UserConversationState
          /\ conv'[1] = END
          /\ user_data'[1] = EmptyDict
          /\ subscriptions' = subscriptions
          /\ subscription_countries' = subscription_countries]_vars

\* a row created by a confirmed payment whose flow was left before a package was
\* chosen: the row is still pending_payment, the conversation is over and the
\* user_data is empty
PendingRowAfterCancel ==
    \E n \in SubIds :
        /\ subscriptions[n].user_id = 1
        /\ subscriptions[n].status = "pending_payment"
        /\ subscriptions[n].country_package_id = None
        /\ <<1, 1>> \in verified
        /\ conv[1] = END
        /\ user_data[1] = EmptyDict

\* the step ends a flow of user a: the purchase or the renewal is completed
FlowCompleted(a) ==
    /\ conv[a] \in UserConversationState
    /\ conv'[a] = END
    /\ shown' \in {"activated", "renewed"}

\* the step starts a new flow of user a while an earlier one is still open
FlowSuperseded(a) ==
    /\ conv[a] \in UserConversationState
    /\ \/ Handled(a, "subscribe") /\ subscribe_command(a)
       \/ menu_subscribe_handler(a)

\* C22: when a flow ends by completion (the purchase is activated or the renewal
\* is applied), by cancellation or by a new flow that takes its place, user_data
\* holds no selected_duration, payment_id, payment_type, renewing_sub_id or
\* pending_subscription_id afterwards.
FlowEndClearsData ==
    [][(FlowCompleted(1) \/ cancel_subscription_flow(1) \/ FlowSuperseded(1)) =>
          FlowData(user_data'[1]) = {}]_vars

\* C23: when the administrator confirms the deletion of a subscription that
\* exists, its status becomes cancelled_by_admin whether all, some or none of the
\* keys were deleted, and the text sent to the administrator says that all keys
\* were deleted exactly when every key of the cached details was deleted.
AdminCancelUnconditional ==
    [][(/\ admin_conv[ADMIN_USER_ID] = "ADMIN_CONFIRM_DELETE_SUB"
        /\ admin_conv'[ADMIN_USER_ID] = END) =>
          \A reach \in Reach :
              LET sub_db_id == Get(user_data[ADMIN_USER_ID], "sub_to_delete_id", NoId)
                  d == user_data[ADMIN_USER_ID]["sub_to_delete_details"]
              IN  (/\ admin_confirm_delete_action(ADMIN_USER_ID, TRUE, reach)
                   /\ sub_db_id \in SubIds) =>
                    /\ subscriptions'[sub_db_id].status = "cancelled_by_admin"
                    /\ shown' \in {"cancelled_keys_deleted", "cancelled_keys_issue"}
                    /\ shown' = "cancelled_keys_deleted" <=>
                          \A i \in DOMAIN d.key_ids :
                              /\ d.key_ids[i] \in outline_keys[d.countries[i]]
                              /\ d.key_ids[i] \notin outline_keys'[d.countries[i]]]_vars

\* a subscription cancelled by the administrator while one of its two keys could
\* not be deleted: the key is still on its server and the text reports the issue
CancelledWithKeyLeft ==
    \E n \in SubIds :
        /\ subscriptions[n].status = "cancelled_by_admin"
        /\ shown = "cancelled_keys_issue"
        /\ Len(RowsOf(subscription_countries, n)) = 2
        /\ \E i, j \in 1..2 :
              LET rs == RowsOf(subscription_countries, n)
              IN  /\ rs[i].outline_key_id \in outline_keys[rs[i].country_code]
                  /\ rs[j].outline_key_id \notin outline_keys[rs[j].country_code]

\* C24: a user whose id is not ADMIN_USER_ID never enters the deletion flow and
\* never gets a timestamp recorded under command_admin_del_sub, and every
\* /admin_del_sub and every callback of the deletion flow that such a user sends
\* leaves the whole state as it was: no status becomes cancelled_by_admin by it.
NonAdminRefused ==
    /\ [](\A a \in Actors :
            /\ admin_conv[a] = END
            /\ StoredTime(user_data[a], "command_admin_del_sub") = 0)
    /\ [][\A a \in Actors :
            (AdminEvent(a) \/ unhandled_admin_callback(a)) => UNCHANGED stateVars]_vars

\* user 1, who owns a subscription the administrator's list would show, has just
\* sent /admin_del_sub and was refused
RefusedWithListedSubscription ==
    /\ shown = "admins_only"
    /\ \E n \in AdminListed : subscriptions[n].user_id = 1
    /\ admin_conv[1] = END

\* C25: within one pass of check_expired_subscriptions a failure in the turn of
\* one subscription does not keep the loop from the rows that follow: while rows
\* of a pass are left, the next step of the loop drops the first row alone.
ScanVisitsEveryRow ==
    [][(scan # <<>> /\ scan' # scan) => scan' = Tail(scan)]_vars

\* C26: a handler that finds the conversation state it expects missing (no payment
\* reference or type on confirm_payment, no selected plan on pay_<button>, no pending
\* subscription id on countries_<package>) ends the flow with an error message,
\* leaves no flow data behind for the user and creates or changes no subscription.
\* Violated: the three branches return END without user_data.clear(); what the
\* user's other conversation stored after the last clear() is still there.
MissingStateTexts ==
    {"payment_information_missing", "duration_not_selected", "missing_information"}

MissingStateEndsFlow ==
    [][shown' \in MissingStateTexts =>
          /\ conv'[ADMIN_USER_ID] = END
          /\ FlowData(user_data'[ADMIN_USER_ID]) = {}
          /\ subscriptions' = subscriptions
          /\ subscription_countries' = subscription_countries]_vars

\* C27: in CHOOSE_PAYMENT, when the provider does not mint the payment (pay_crypto or
\* pay_card), the conversation goes back to CHOOSE_DURATION with the error on the
\* screen and no subscription is created or changed; and the conversation enters
\* AWAIT_PAYMENT_CONFIRMATION only in a step that mints a payment id for the plan
\* selected at that moment and stores it.
\* Violated in its last part: pay_<anything> falls through to the state without a
\* payment. The refusals of the provider are handled as stated.
MintFailureReturns ==
    [][/\ shown' = "payment_creation_error" =>
             /\ conv[1] = "CHOOSE_PAYMENT"
             /\ conv'[1] = "CHOOSE_DURATION"
             /\ subscriptions' = subscriptions
             /\ subscription_countries' = subscription_countries
       /\ (conv[1] # "AWAIT_PAYMENT_CONFIRMATION"
              /\ conv'[1] = "AWAIT_PAYMENT_CONFIRMATION") =>
             /\ Get(user_data[1], "selected_duration", None) \in DOMAIN DURATION_PLANS
             /\ Get(user_data'[1], "selected_duration", None)
                    = Get(user_data[1], "selected_duration", None)
             /\ next_ref' = next_ref + 1
             /\ Get(user_data'[1], "payment_id", NoId) = next_ref
             /\ Get(user_data'[1], "payment_type", None) \in PaymentRails]_vars

\* C28: when a deletion removes some but not all keys of a subscription
\* (0 < deleted_count < total), the report to the user or the administrator states
\* the two counts; the report says "all" only when deleted_count = total and "none"
\* only when deleted_count = 0 < total; deleted_count never exceeds total.
\* Violated by the administrator's report: one text, without counts, stands for
\* every deletion that was not complete. The reports of the deferred job and of
\* the user's own cancellation (DeletionReport) are as stated.
CountedReports == {"partial"}

PartialDeletionStatesCounts ==
    [][/\ \A total \in 0..Cardinality(OUTLINE_SERVERS) : \A deleted \in 0..total :
              /\ (0 < deleted /\ deleted < total) =>
                     DeletionReport(deleted, total) \in CountedReports
              /\ DeletionReport(deleted, total) = "all" => deleted = total
              /\ DeletionReport(deleted, total) = "none" => (deleted = 0 /\ 0 < total)
       /\ (/\ admin_conv[ADMIN_USER_ID] = "ADMIN_CONFIRM_DELETE_SUB"
           /\ admin_conv'[ADMIN_USER_ID] = END) =>
             \A reach \in Reach :
                 LET sub_db_id == Get(user_data[ADMIN_USER_ID], "sub_to_delete_id", NoId)
                     d == user_data[ADMIN_USER_ID]["sub_to_delete_details"]
                     st == delete_keys([keys |-> outline_keys, deleted_count |-> 0],
                                       d.key_ids, d.countries, reach, 1)
                 IN  (/\ admin_confirm_delete_action(ADMIN_USER_ID, TRUE, reach)
                      /\ sub_db_id \in SubIds) =>
                       /\ st.deleted_count <= Len(d.key_ids)
                       /\ (0 < st.deleted_count /\ st.deleted_count < Len(d.key_ids)) =>
                              shown' \in CountedReports
                       /\ shown' = "cancelled_keys_deleted" =>
                              st.deleted_count = Len(d.key_ids)]_vars

\* C29: when the administrator's cancellation falls between the read and the write
\* of a renewal of the same subscription, or after them, no update is lost: the
\* row after the later of the two writes is the row that one of the two serial
\* orders leaves, with the end extended from the end that was read; the
\* cancellation changes the status alone.
RowRenewed(row, a) ==
    [row EXCEPT !.end_date = row.end_date
                    + DURATION_PLANS[Get(user_data[a], "selected_duration", None)].duration_days,
                !.status = "active",
                !.payment_id = Get(user_data[a], "payment_id", NoId)]

RowCancelled(row) == [row EXCEPT !.status = "cancelled_by_admin"]

RenewalAndCancelSerial ==
    [][\A n \in SubIds :
          /\ (/\ existing_sub # <<>>
              /\ existing_sub' = <<>>
              /\ existing_sub[1].row.id = n
              /\ existing_sub[1].row.end_date # NoDate) =>
                LET row0 == existing_sub[1].row
                IN  /\ subscriptions'[n].end_date > row0.end_date
                    /\ subscriptions[n] = row0 => subscriptions'[n] = RowRenewed(row0, 1)
                    /\ subscriptions[n] = RowCancelled(row0) =>
                          subscriptions'[n] \in {RowRenewed(RowCancelled(row0), 1),
                                                 RowCancelled(RowRenewed(row0, 1))}
          /\ (/\ admin_conv[ADMIN_USER_ID] = "ADMIN_CONFIRM_DELETE_SUB"
              /\ admin_conv'[ADMIN_USER_ID] = END
              /\ subscriptions'[n] # subscriptions[n]) =>
                subscriptions'[n] = RowCancelled(subscriptions[n])]_vars

\* the renewal has read the active row, the administrator has cancelled it since,
\* and the renewal has not written yet
CancelledBetweenReadAndWrite ==
    /\ existing_sub # <<>>
    /\ existing_sub[1].row.status = "active"
    /\ subscriptions[existing_sub[1].row.id] = RowCancelled(existing_sub[1].row)

\* C30: the rate limiter's decisions for one user depend on that user's earlier
\* calls alone: a call by one user leaves the recorded timestamps of every other
\* user as they were, and each user's answers and timestamps are the ones the same
\* calls get when the calls of the other users are left out.
RECURSIVE Alone(_, _, _)
Alone(cs, b, st) ==
    IF cs = <<>>
    THEN st
    ELSE IF Head(cs).a = b
         THEN Alone(Tail(cs), b,
                    [answers |-> Append(st.answers,
                                        is_rate_limited(st.data, Head(cs).limit_type, Head(cs).t)),
                     data |-> after_rate_limit(st.data, Head(cs).limit_type, Head(cs).t)])
         ELSE Alone(Tail(cs), b, st)

RECURSIVE AnswersTo(_, _)
AnswersTo(cs, b) ==
    IF cs = <<>>
    THEN <<>>
    ELSE IF Head(cs).a = b
         THEN <<Head(cs).limited>> \o AnswersTo(Tail(cs), b)
         ELSE AnswersTo(Tail(cs), b)

RateLimitPerUser ==
    /\ [](\A b \in Actors :
            LET alone == Alone(calls, b, [answers |-> <<>>, data |-> EmptyDict])
            IN  /\ AnswersTo(calls, b) = alone.answers
                /\ AnswersTo(calls, b) # <<>> => user_data[b] = alone.data)
    /\ [][\A b \in Actors :
            (Len(calls') = Len(calls) + 1 /\ calls'[Len(calls')].a # b) =>
                user_data'[b] = user_data[b]]_vars

\* user 1 is let through, user 2 is let through at the same second for the same
\* command, and the next call of user 2 is rejected
BothLetThroughAtOnce ==
    /\ Len(calls) >= 3
    /\ calls[1].a = 1 /\ ~calls[1].limited
    /\ calls[2].a = 2 /\ ~calls[2].limited
    /\ calls[2].limit_type = calls[1].limit_type /\ calls[2].t = calls[1].t
    /\ calls[3].a = 2 /\ calls[3].limited /\ calls[3].limit_type = calls[2].limit_type

\* C31: while the keys of a package are created, every country of the package gets
\* its turn whatever happened in the countries before it: a country whose turn
\* succeeds gets its key and its row, a country without client, with a failed
\* creation or with an exception gets neither, and the handler ends with its own
\* answer, so nothing leaves the loop.
EveryCountryAttempted ==
    [][\A k \in Packages, o \in [OUTLINE_SERVERS -> Outcomes] :
          LET n == Get(user_data[1], "pending_subscription_id", NoId)
              countries == COUNTRY_PACKAGES[k].countries
          IN  (/\ n \in SubIds
               /\ Get(user_data[1], "payment_id", NoId) # NoId
               /\ Get(user_data[1], "selected_duration", None) # None
               /\ countries_chosen(1, k, CreatedIn(o))) =>
                /\ \A i \in DOMAIN countries :
                      LET c == countries[i]
                      IN  IF KeyCreated(o[c])
                          THEN /\ outline_keys'[c] = outline_keys[c] \cup {next_key[c]}
                               /\ \E j \in RowsFor(subscription_countries', n, c) :
                                     subscription_countries'[j].outline_key_id = next_key[c]
                          ELSE /\ outline_keys'[c] = outline_keys[c]
                               /\ RowsFor(subscription_countries', n, c) = {}
                /\ conv'[1] = END
                /\ shown' \in {"activated", "activation_error"}]_vars

\* the first country of the package failed and the second one got its key
SecondCountryAfterFailure ==
    \E n \in SubIds :
        /\ shown = "activated"
        /\ subscriptions[n].status = "active"
        /\ CountriesOf(subscription_countries, n) = <<"amsterdam">>
        /\ outline_keys["germany"] = {}
        /\ outline_keys["amsterdam"] # {}

\* C32: a country whose key was created and could not be renamed counts as
\* succeeded: its row is stored, its key stays on the server and the
\* subscription is activated.
UnnamedKeyCounts ==
    [][\A k \in Packages, o \in [OUTLINE_SERVERS -> Outcomes] :
          LET n == Get(user_data[1], "pending_subscription_id", NoId)
              countries == COUNTRY_PACKAGES[k].countries
          IN  (/\ n \in SubIds
               /\ Get(user_data[1], "payment_id", NoId) # NoId
               /\ Get(user_data[1], "selected_duration", None) # None
               /\ countries_chosen(1, k, CreatedIn(o))
               /\ \E i \in DOMAIN countries : o[countries[i]] = "created_unnamed") =>
                /\ \A i \in DOMAIN countries :
                      LET c == countries[i]
                      IN  o[c] = "created_unnamed" =>
                            /\ next_key[c] \in outline_keys'[c]
                            /\ \E j \in RowsFor(subscription_countries', n, c) :
                                  subscription_countries'[j].outline_key_id = next_key[c]
                /\ subscriptions'[n].status = "active"
                /\ shown' = "activated"]_vars

\* a subscription activated with a key in each of its two countries
ActiveWithBothKeys ==
    \E n \in SubIds :
        /\ shown = "activated"
        /\ subscriptions[n].status = "active"
        /\ Len(RowsOf(subscription_countries, n)) = 2
        /\ \A i \in 1..2 :
              LET r == RowsOf(subscription_countries, n)[i]
              IN  r.outline_key_id \in outline_keys[r.country_code]

\* C33: a payment id that was reported paid is applied at most once: the step of
\* confirm_payment that renews a subscription or creates one never does so with a
\* payment id that a row of the store already carries.
\* Violated: a renewal leaves payment_id in user_data, and pay_<anything> takes the
\* next flow to the confirmation without a new payment.
PaymentAppliedOnce ==
    [][shown' \in {"renewed", "choose_countries"} =>
          \A n \in SubIds :
              subscriptions[n].payment_id # Get(user_data[1], "payment_id", NoId)]_vars

\* C34: the plan that a confirmed payment grants is the plan the payment was made
\* out for: whenever the conversation waits for the confirmation with a plan and a
\* payment id stored, that payment id was handed out for that plan.
\* Violated: pay_<anything> enters the state with the payment id of an earlier
\* choice of plan.
PlanMatchesPayment ==
    LET payment_id == Get(user_data[1], "payment_id", NoId)
        duration_id == Get(user_data[1], "selected_duration", None)
    IN  (/\ conv[1] = "AWAIT_PAYMENT_CONFIRMATION"
         /\ payment_id # NoId
         /\ duration_id # None) =>
            minted_for[payment_id] = duration_id

\* C35: in every reachable state an active subscription has at least one row of
\* subscription_countries whose key still exists on the server of its country.
\* Violated: a renewal sets the status back to active after the keys were deleted.
ActiveHasLiveKey ==
    \A n \in SubIds :
        subscriptions[n].status = "active" =>
            \E i \in DOMAIN RowsOf(subscription_countries, n) :
                LET r == RowsOf(subscription_countries, n)[i]
                IN  r.outline_key_id \in outline_keys[r.country_code]

\* a key of the rows of subscription n exists on the server of its country
HasLiveKey(n) ==
    \E i \in DOMAIN RowsOf(subscription_countries, n) :
        LET r == RowsOf(subscription_countries, n)[i]
        IN  r.outline_key_id \in outline_keys[r.country_code]

\* subscription n is marked expired and one of its keys exists
ExpiredWithLiveKey(n) ==
    /\ n \in SubIds
    /\ subscriptions[n].status = "expired"
    /\ HasLiveKey(n)

\* C36: the keys of a lapsed subscription are reclaimed in the end: a subscription
\* that is marked expired while one of its keys exists is later renewed or has
\* none of its keys left.
\* Violated: the job marks the subscription expired whatever the servers answered,
\* and the scan reads active rows only, so nothing deletes the key later.
ExpiredKeysReclaimed ==
    \A n \in 1..MaxSubs : ExpiredWithLiveKey(n) ~> ~ExpiredWithLiveKey(n)

\* the pending delete_expired_keys jobs of subscription n
JobsOf(n) == {j \in DOMAIN jobs : jobs[j].sub_id = n}

\* C37: for one expiry of a subscription at most one delete_expired_keys job is
\* pending at any time: the scan passes of the grace period send one notice and
\* schedule one job.
\* Violated: the subscription stays active during the grace period, and every pass
\* that finds it due sends the notice and schedules a job.
OneJobPerExpiry ==
    \A n \in SubIds : Cardinality(JobsOf(n)) <= 1

\* C38: a step marks a subscription expired only if the subscription is active and
\* its end_date has passed at that moment.
\* Violated: handle_cancel_expired looks at the owner of the row alone.
ExpiredOnlyWhenDue ==
    [][\A n \in SubIds :
          (subscriptions[n].status # "expired" /\ subscriptions'[n].status = "expired") =>
              Due(n)]_vars

\* ------------------------------------- the rate limiter and the conversation
\* /subscribe with the call of its wrapper and the answer written to the history
subscribe_command_recorded(a) ==
    /\ Len(calls) < MaxFlowCalls
    /\ calls' = Append(calls, [a |-> a, limit_type |-> "command_subscribe", t |-> wall,
                               limited |-> is_rate_limited(user_data[a],
                                                           "command_subscribe", wall)])
    /\ user_data' = [user_data EXCEPT ![a] = after_rate_limit(@, "command_subscribe", wall)]
    /\ conv' = IF is_rate_limited(user_data[a], "command_subscribe", wall)
               THEN conv
               ELSE [conv EXCEPT ![a] = "CHOOSE_DURATION"]
    /\ entered' = IF is_rate_limited(user_data[a], "command_subscribe", wall)
                  THEN entered
                  ELSE [entered EXCEPT ![a] = "subscribe"]
    /\ UNCHANGED <<clockVars, adminVars, storeVars, serverVars, schedVars, next_ref,
                   verified, activated>>
    /\ UNCHANGED <<existing_sub, minted_for>>
    /\ shown' = None

\* one user who subscribes, buys, cancels and goes back to the menu while the clock
\* of the rate limiter runs
NextRateFlow ==
    \/ subscribe_command_recorded(1)
    \/ \E p \in Plans : duration_chosen(1, p)
    \/ \E b \in PaymentButtons : payment_method_chosen(1, b, TRUE)
    \/ confirm_payment(1, "paid", TRUE)
    \/ \E k \in Packages : countries_chosen(1, k, AllReachable)
    \/ cancel_subscription_flow(1)
    \/ back_to_menu_handler(1)
    \/ AdvanceWall

SpecRateFlow == Init /\ [][NextRateFlow]_vars

\* C39: the timestamps of the rate limiter outlive the conversation: of two
\* /subscribe commands of a user less than the interval apart, the first of them
\* allowed, the second is rejected, whatever happened to the conversation between
\* them.
\* Violated: the timestamps are kept in user_data, which the end of a conversation
\* clears.
RateLimitOutlivesFlow ==
    \A i, j \in DOMAIN calls :
        (/\ i < j
         /\ calls[i].a = calls[j].a
         /\ calls[i].limit_type = calls[j].limit_type
         /\ ~calls[i].limited
         /\ calls[j].t - calls[i].t < RateLimitOf(calls[i].limit_type)) =>
            calls[j].limited

\* ------------------------------------- a user and the subscription of another
\* user 1 has bought subscription 1; user 2 has nothing yet
OnePurchase == Bought(NoPurchase, 1)

InitForeign ==
    /\ now = 0
    /\ wall = WallStart
    /\ subscriptions = OnePurchase.subs
    /\ subscription_countries = OnePurchase.rows
    /\ outline_keys = OnePurchase.keys
    /\ next_key = OnePurchase.next_key
    /\ user_data = [a \in Users |-> EmptyDict]
    /\ conv = [a \in Users |-> END]
    /\ next_ref = 2
    /\ verified = {<<1, 1>>}
    /\ activated = {1}
    /\ entered = [a \in Users |-> None]
    /\ scan = <<>>
    /\ jobs = <<>>
    /\ reminded_subs = {}
    /\ reminders = [n \in 1..MaxSubs |-> 0]
    /\ window_turns = [n \in 1..MaxSubs |-> 0]
    /\ users = {}
    /\ admin_conv = [u \in Users |-> END]
    /\ calls = <<>>
    /\ existing_sub = <<>>
    /\ minted_for = <<"1_month">>
    /\ shown = None

\* the ids a callback of user 2 can name: the subscription of user 1 and its own
ForeignIds == 1..(MaxSubs + 1)

\* every event of user 2, and the clock; user 1 and the scheduler do nothing
NextForeign ==
    \/ subscribe_command(2)
    \/ menu_subscribe_handler(2)
    \/ \E n \in ForeignIds : handle_renewal(2, n)
    \/ \E p \in Plans : duration_chosen(2, p)
    \/ \E b \in PayCallbacks, m \in BOOLEAN : payment_method_chosen(2, b, m)
    \/ back_to_duration_handler(2)
    \/ \E s \in PaymentStatus, v \in BOOLEAN : confirm_payment(2, s, v)
    \/ \E k \in Packages, c \in Reach : countries_chosen(2, k, c)
    \/ cancel_subscription_flow(2)
    \/ back_to_menu_handler(2)
    \/ unhandled_confirm_payment(2)
    \/ \E n \in ForeignIds, r \in Reach : handle_cancel_expired(2, n, r)
    \/ AdvanceTime

SpecForeign == InitForeign /\ [][NextForeign]_vars

\* C40: a user changes only subscriptions of its own: no event of user 2 (renew_<id>,
\* cancel_expired_<id>, confirm_payment, countries_<package>, whatever id or
\* payload it carries) changes the row of a subscription owned by another user or
\* deletes one of its keys.
OthersUntouched ==
    [][\A n \in SubIds :
          subscriptions[n].user_id # 2 =>
              /\ subscriptions'[n] = subscriptions[n]
              /\ RowsOf(subscription_countries', n) = RowsOf(subscription_countries, n)
              /\ \A i \in DOMAIN RowsOf(subscription_countries, n) :
                    LET r == RowsOf(subscription_countries, n)[i]
                    IN  r.outline_key_id \in outline_keys[r.country_code] =>
                            r.outline_key_id \in outline_keys'[r.country_code]]_vars

\* user 2 has bought, renewed and given up a subscription of its own, and the
\* subscription of user 1 is as it was, with both keys
OwnChangedOtherIntact ==
    /\ Len(subscriptions) = 2
    /\ subscriptions[2].user_id = 2
    /\ subscriptions[2].status = "expired"
    /\ subscriptions[2].end_date = 60
    /\ subscriptions[1] = OnePurchase.subs[1]
    /\ outline_keys["germany"] = {1} /\ outline_keys["amsterdam"] = {1}

====
